---- MODULE Spec2Model ----
(***************************************************************************)
(* Model of the Lucy virtual try-on front end: the Pose Source             *)
(* (pose-tracker.js), the Remote Enhancement Channel (ai-pipeline.js),     *)
(* the Composite Render Loop (CompositeRenderer) and the Skeletal Mapper   *)
(* (skeleton-mapper.js).  Each component has its own specification over    *)
(* the shared state; the events of the browser (animation frames, socket   *)
(* events, timers, promise completions) are the actions.                   *)
(*                                                                         *)
(* Time is performance.now() in units of 1/3 ms, so that 1000/30 ms and    *)
(* 1000/60 ms are whole numbers.  Landmark coordinates, scene coordinates, *)
(* angles and scales are fixed-point numbers in thousandths.               *)
(***************************************************************************)
EXTENDS Integers, Sequences, FiniteSets, TLC

VARIABLES
    \* ---- Pose Source (PoseTracker) ----
    ptClock,            \* performance.now() seen by the pose loop
    ptIsInitialized,    \* PoseTracker.isInitialized
    isProcessing,       \* PoseTracker.isProcessing
    lastProcessTime,    \* PoseTracker.lastProcessTime
    processInterval,    \* PoseTracker.processInterval
    sendFrameLoops,     \* one sendFrame closure per start(): "none" | "raf" | "await"
    landmarks,          \* PoseTracker.landmarks (NULL or Some(coordinate))
    smoothedLandmarks,  \* PoseTracker.smoothedLandmarks
    ptStopped,          \* history: stop() was called and start() not since
    sentWhileStopped,   \* history: pose.send was invoked while ptStopped
    sendGap,            \* history: NULL or Some(the time between the last two detector
                        \* invocations, processInterval at the later one)
    hasSent,            \* history: the detector has been invoked
    \* ---- Remote Enhancement Channel (AIPipeline) ----
    aiEnabled,          \* CONFIG.AI_PIPELINE.ENABLED
    aiInitCalled,       \* AIPipeline.init() has been called
    wsState,            \* readyState of every WebSocket created: "none" (not yet
                        \* created) | "connecting" | "open" | "closing" | "closed"
    connectPromise,     \* the promise of the connect() call that created the socket:
                        \* "none" | "pending" | "settled"
    ws,                 \* AIPipeline.ws: 0 (null) or a socket
    isConnected,        \* AIPipeline.isConnected
    reconnectAttempts,  \* AIPipeline.reconnectAttempts
    reconnectWaits,     \* handleDisconnect() calls waiting in Utils.wait(RECONNECT_DELAY)
    keyframeInterval,   \* AIPipeline.keyframeInterval: FALSE (null) or TRUE (a timer)
    orphanTimers,       \* running setInterval timers that keyframeInterval no longer holds
    pendingKeyframes,   \* sendKeyframe() calls awaiting the camera capture
    pendingLost,        \* history: how many of them lost the connection they started on
    staleSent,          \* history: a keyframe was transmitted although the connection
                        \* its send attempt started on had been lost
    attemptsSinceOpen,  \* history: sockets created by handleDisconnect since the last open
    closedAt,           \* history: NULL or Some(n), n sockets existed when close()
                        \* was called on a Connected channel
    appStopped,         \* history: the application has called stop(), which cleared the
                        \* keyframe timer and left none running, and has not called
                        \* start() since
    \* ---- Composite Render Loop (CompositeRenderer) ----
    rClock,             \* performance.now() seen by the render loop
    rTicks,             \* how often the clock has advanced
    isRunning,          \* CompositeRenderer.isRunning
    animationId,        \* CompositeRenderer.animationId: 0 (null) or a frame request
    rafPending,         \* the frame requests of the render loop not yet fired or cancelled
    lastRenderTime,     \* CompositeRenderer.lastRenderTime
    frameCount,         \* CompositeRenderer.frameCount
    lastFpsUpdate,      \* CompositeRenderer.lastFpsUpdate
    fpsHistory,         \* CompositeRenderer.fpsHistory
    fps,                \* CompositeRenderer.fps
    renderScale,        \* CONFIG.PERFORMANCE.RENDER_SCALE
    lastAccepted,       \* history: NULL or Some(time of the last accepted frame)
    acceptedGap,        \* history: NULL or Some(time between the last two accepted frames)
    lastFrameThrew,     \* history: sceneManager.render() threw in the last accepted frame
    lastFrameScale,     \* history: NULL or Some(the scale the last accepted frame had)
    scaleRose,          \* history: an accepted frame had a higher scale than the one before
    unpausedStall,      \* history: more than 1 / LOW_PERFORMANCE_THRESHOLD seconds passed
                        \* without a frame while the loop ran or before its first frame
    \* ---- Skeletal Mapper (SkeletonMapper) ----
    smClock,            \* performance.now() seen by the mapper
    initialized,        \* SkeletonMapper.initialized
    lastPosition,       \* SkeletonMapper.lastPosition: NULL or Some(<<x, y, z>>)
    lastRotation,       \* SkeletonMapper.lastRotation: NULL or Some(<<x, y, z>>)
    lastScale,          \* SkeletonMapper.lastScale: NULL or Some(scale)
    lastUpdateTime,     \* SkeletonMapper.lastUpdateTime
    updateInterval,     \* SkeletonMapper.updateInterval
    calibration,        \* SkeletonMapper.calibration
    lastPose,           \* SkeletonMapper.lastPose
    jacket,             \* modelLoader.getModel(): NULL or Some(the garment's transform)
    updateOutcome,      \* history: how the latest update() call ended ("none": no
                        \* update() since the garment was last touched otherwise)
    updateLowVisibility,\* history: the pose of the latest update() call had a shoulder
                        \* of visibility <= 0.3
    updateCount,        \* history: NULL or Some(the number of landmarks of the pose of
                        \* the latest update() call)
    jacketBefore,       \* history: the garment before the latest update() call
    prevApplied,        \* history: NULL or Some(the accepted update() before the latest)
    lastApplied,        \* history: NULL or Some(the latest accepted update()): the
                        \* shoulders' landmark Y, the vertical offset of the calibration,
                        \* the scene Y computed and the scene Y written to the garment
    appliedAt,          \* history: NULL or Some(the time of the latest accepted update())
    \* ---- Enhancement frames and blend transition (AIPipeline) ----
    blendClock,         \* performance.now() seen by the blend animation
    latestAIFrame,      \* AIPipeline.latestAIFrame: NULL or Some(image)
    blendAlpha,         \* AIPipeline.blendAlpha
    isBlending,         \* AIPipeline.isBlending
    blendStart,         \* startTime of the latest startBlend() that began a transition
    animatePending,     \* an animate callback of startBlend() is requested
    prevReceived,       \* history: NULL or Some(the result message before the latest)
    lastReceived,       \* history: NULL or Some(the latest result message)
    receivedAt,         \* history: NULL or Some(the time the latest result message came)
    lastHandled,        \* history: the type of the last message given to handleMessage()
    failureBefore,      \* history: the last result message followed an error or unparsable one
    frameAlphas,        \* history: blendAlpha after the last two animation frames of the transition
    \* ---- Fabric materials (MaterialsManager) ----
    currentMaterial,    \* MaterialsManager.currentMaterial: NULL or Some(material)
    currentFabric,      \* MaterialsManager.currentFabric: NULL or Some(fabric)
    meshMaterial,       \* the material attached to the jacket mesh (mesh.material)
    textures,           \* MaterialsManager.textures: NULL or Some(fabric whose maps)
    applyCalls,         \* the applyFabric() calls awaiting their textures, oldest
                        \* first: the fabric and Some(the state before the call), or
                        \* NULL once another call has changed the state
    lastFailure,        \* history: NULL or Some(the applyFabric() call that failed
                        \* last, nothing having been applied or removed since)
    swapLog,            \* history: what the applyFabric() call that ended last did to
                        \* materials, in order
    \* ---- Application bootstrap (LucyApp) ----
    madeLast,           \* history: NULL or Some(the fabric of the applyFabric() call made
                        \* last), NULL once a call has failed or removeFabric() was called
    appPc,              \* LucyApp.init(): 0 not called, i the step InitSteps[i] is next,
                        \* Len(InitSteps) + 1 start() is next, Len(InitSteps) + 2 settled
    initResult,         \* the promise of LucyApp.init(): none, pending, resolved, rejected
    appInitialized,     \* LucyApp.isInitialized
    appRunning,         \* LucyApp.isRunning
    stepsRun,           \* history: the initialization steps that were begun
    failures,           \* history: the steps (and "start") whose operation failed
    channelLost,        \* history: the enhancement connection was lost after init()
    poseLoopStarted,    \* poseTracker.start() has requested its frame loop
    rendererStarted,    \* compositeRenderer.start() was called last, not stop()
    pageHidden,         \* document.hidden
    stopCalled,         \* history: LucyApp.stop() was called
    errorShown,         \* LucyApp.init() has shown its error message
    \* ---- A scripted pose sequence given to the mapper's scale ----
    scriptLastScale,    \* SkeletonMapper.lastScale: NULL or Some(scale)
    scriptLen,          \* the number of poses given so far
    scriptWidth,        \* NULL or Some(the shoulder width of the last pose)
    scriptTarget,       \* NULL or Some(calculateScale() of the last pose)
    scriptWritten,      \* NULL or Some(the scale written for the last pose)
    scriptPrev,         \* NULL or Some(the scale written for the pose before)
    scriptRepeated,     \* the last pose was the same as the pose before
    \* ---- A stream of detector results given to the Pose Source's smoothing ----
    streamFactor,       \* CONFIG.SKELETON.SMOOTHING_FACTOR of the stream: NULL (not yet
                        \* configured) or Some(thousandths)
    streamLen,          \* the number of results given so far
    streamInput,        \* NULL or Some(the landmark coordinate of the last result)
    streamSmoothed,     \* PoseTracker.smoothedLandmarks
    streamBefore,       \* smoothedLandmarks before the last result
    streamRepeated,     \* the last result was the same as the result before
    \* ---- Fabric selection (FabricSelector) ----
    selectedFabric,     \* FabricSelector.selectedFabric: NULL or Some(fabric)
    selIsLoading,       \* FabricSelector.isLoading
    selOutcome,         \* history: how the latest selectFabric() call ended, "loading"
                        \* while it awaits applyFabric()
    selIgnored,         \* history: a selectFabric() call returned at once since another
                        \* was loading
    \* ---- The render loop under the application and the page's visibility ----
    loopAppRunning,     \* app.isRunning, as the visibilitychange handler reads it
    docHidden,          \* document.hidden
    shownAgain          \* history: the page was hidden and shown again

poseVars == <<ptClock, ptIsInitialized, isProcessing, lastProcessTime, processInterval,
              sendFrameLoops, landmarks, smoothedLandmarks, ptStopped, sentWhileStopped,
              sendGap, hasSent>>

aiVars == <<aiEnabled, aiInitCalled, wsState, connectPromise, ws, isConnected,
            reconnectAttempts, reconnectWaits, keyframeInterval, orphanTimers,
            pendingKeyframes, pendingLost, staleSent, attemptsSinceOpen, closedAt, appStopped>>

rVars == <<rClock, rTicks, isRunning, animationId, rafPending, lastRenderTime, frameCount,
           lastFpsUpdate, fpsHistory, fps, renderScale, lastAccepted, acceptedGap,
           lastFrameThrew, lastFrameScale, scaleRose, unpausedStall>>

smVars == <<smClock, initialized, lastPosition, lastRotation, lastScale, lastUpdateTime,
            updateInterval, calibration, lastPose, jacket, updateOutcome,
            updateLowVisibility, updateCount, jacketBefore, prevApplied,
                   lastApplied, appliedAt>>

blendVars == <<blendClock, latestAIFrame, blendAlpha, isBlending, blendStart, animatePending,
               prevReceived, lastReceived, receivedAt, lastHandled,
                   failureBefore, frameAlphas>>

fabricVars == <<currentMaterial, currentFabric, meshMaterial, textures, applyCalls,
                lastFailure, swapLog, madeLast>>

appVars == <<appPc, initResult, appInitialized, appRunning, stepsRun, failures, channelLost,
             poseLoopStarted, rendererStarted, pageHidden, stopCalled, errorShown>>

scriptVars == <<scriptLastScale, scriptLen, scriptWidth, scriptTarget, scriptWritten,
                scriptPrev, scriptRepeated>>

streamVars == <<streamFactor, streamLen, streamInput, streamSmoothed, streamBefore,
                streamRepeated>>

loopVars == <<loopAppRunning, docHidden, shownAgain>>

selVars == <<selectedFabric, selIsLoading, selOutcome, selIgnored>>

vars == <<poseVars, aiVars, rVars, smVars, blendVars, fabricVars, appVars, scriptVars,
          streamVars, loopVars, selVars>>

\* the variables of the other components, which a component's step leaves alone
NotPoseVars == <<aiVars, rVars, smVars, blendVars, fabricVars, appVars,
    scriptVars, streamVars, loopVars, selVars>>

NotAIVars == <<poseVars, rVars, smVars, blendVars, fabricVars, appVars,
    scriptVars, streamVars, loopVars, selVars>>

NotRenderVars == <<poseVars, aiVars, smVars, blendVars, fabricVars, appVars,
    scriptVars, streamVars, loopVars, selVars>>

NotMapperVars == <<poseVars, aiVars, rVars, blendVars, fabricVars, appVars,
    scriptVars, streamVars, loopVars, selVars>>

NotBlendVars == <<poseVars, aiVars, rVars, smVars, fabricVars, appVars,
    scriptVars, streamVars, loopVars, selVars>>

NotAppVars ==
    <<poseVars, aiVars, rVars, smVars, blendVars, fabricVars, scriptVars, streamVars,
      loopVars, selVars>>

NotScriptVars ==
    <<poseVars, aiVars, rVars, smVars, blendVars, fabricVars, appVars, streamVars,
      loopVars, selVars>>

NotStreamVars ==
    <<poseVars, aiVars, rVars, smVars, blendVars, fabricVars, appVars, scriptVars,
      loopVars, selVars>>

\* what a step of the application around the render loop leaves alone, besides
\* the renderer's clock
NotLoopVars ==
    <<poseVars, aiVars, smVars, blendVars, fabricVars, appVars, scriptVars, streamVars,
      selVars>>

\* what a step of the fabric selector and of the materials manager it calls
\* leaves alone: the other components and, of the mapper, all but the garment and
\* the history of its last update()
NotSelectorVars ==
    <<poseVars, aiVars, rVars, blendVars, appVars, scriptVars, streamVars, loopVars,
      smClock, initialized, lastPosition, lastRotation, lastScale, lastUpdateTime,
      updateInterval, calibration, lastPose, prevApplied, lastApplied, appliedAt>>

\* what a step of the materials manager leaves alone: the other components and,
\* of the mapper, all but the garment and the history of its last update()
NotFabricVars ==
    <<NotSelectorVars, selVars>>

\* null; a present value v is the one-element sequence <<v>>
NULL == <<>>

Some(v) == <<v>>

Val(o) == o[1]

\* n milliseconds in units of the clock (1/3 ms)
Ms(n) == 3 * n

(***************************************************************************)
(* Utils                                                                   *)
(***************************************************************************)

\* a clamp that lets every value through
ClampNone(value, min, max) == value

\* Utils.clamp
Clamp(value, min, max) ==
    LET lower == IF value > min THEN value ELSE min
    IN  IF lower < max THEN lower ELSE max

\* an ema whose two weights are both alpha
EmaSameWeight(current, previous, alpha) ==
    (alpha * current + alpha * previous + 500) \div 1000

\* Utils.ema; alpha in thousandths, the product rounded to the nearest thousandth
Ema(current, previous, alpha) ==
    (alpha * current + (1000 - alpha) * previous + 500) \div 1000

(***************************************************************************)
(* Pose Source                                                             *)
(***************************************************************************)

\* Bounds of the Pose Source model.
MaxPoseLoops == 2
MaxPoseTime == 300

\* CONFIG.SKELETON.SMOOTHING_FACTOR (0.5) in thousandths
SMOOTHING_FACTOR == 500

\* the processing caps setProcessInterval() is called with, in frames per second
PoseFpsChoices == {30, 60}

\* the advance of the clock between two events: a 60 Hz or a 30 Hz frame
PoseTickSteps == {Ms(1000) \div 60, Ms(1000) \div 30}

\* a detector result: no pose, or the landmarks (one representative coordinate)
PoseResults == {NULL, Some(300), Some(500)}

LoopIds == 1..MaxPoseLoops

InFlight == {l \in LoopIds : sendFrameLoops[l] = "await"}

PoseInit ==
    /\ ptClock = 0
    /\ ptIsInitialized = FALSE
    /\ isProcessing = FALSE
    /\ lastProcessTime = 0
    /\ processInterval = Ms(1000) \div 30
    /\ sendFrameLoops = [l \in LoopIds |-> "none"]
    /\ landmarks = NULL
    /\ smoothedLandmarks = NULL
    /\ ptStopped = FALSE
    /\ sentWhileStopped = FALSE
    /\ sendGap = NULL
    /\ hasSent = FALSE

\* performance.now() advances
PT_Tick ==
    /\ \E d \in PoseTickSteps :
          /\ ptClock + d <= MaxPoseTime
          /\ ptClock' = ptClock + d
    /\ UNCHANGED <<ptIsInitialized, isProcessing, lastProcessTime, processInterval,
                   sendFrameLoops, landmarks, smoothedLandmarks, ptStopped, sentWhileStopped,
                   sendGap, hasSent>>
    /\ UNCHANGED NotPoseVars

\* PoseTracker.init(), succeeding
PT_Init ==
    /\ ~ptIsInitialized
    /\ ptIsInitialized' = TRUE
    /\ UNCHANGED <<ptClock, isProcessing, lastProcessTime, processInterval,
                   sendFrameLoops, landmarks, smoothedLandmarks, ptStopped, sentWhileStopped,
                   sendGap, hasSent>>
    /\ UNCHANGED NotPoseVars

\* PoseTracker.start(): requests the first animation frame of a new sendFrame loop
PT_Start ==
    /\ ptIsInitialized
    /\ \E l \in LoopIds :
          /\ sendFrameLoops[l] = "none"
          /\ \A k \in LoopIds : k < l => sendFrameLoops[k] # "none"
          /\ sendFrameLoops' = [sendFrameLoops EXCEPT ![l] = "raf"]
    /\ ptStopped' = FALSE
    /\ sentWhileStopped' = FALSE
    /\ UNCHANGED <<ptClock, ptIsInitialized, isProcessing, lastProcessTime, processInterval,
                   landmarks, smoothedLandmarks, sendGap, hasSent>>
    /\ UNCHANGED NotPoseVars

\* a sendFrame that skips only while the detector is busy
SendFrameSkipsBusyOnly == isProcessing

\* the guard of sendFrame: skip the frame
SendFrameSkips == (ptClock - lastProcessTime < processInterval) \/ isProcessing

\* the animation-frame callback sendFrame of loop l, up to its await
PT_SendFrame(l) ==
    /\ sendFrameLoops[l] = "raf"
    /\ \E videoReady \in BOOLEAN :
          IF SendFrameSkips \/ ~videoReady
          THEN UNCHANGED <<isProcessing, lastProcessTime, sendFrameLoops, sentWhileStopped,
                   sendGap, hasSent>>
          ELSE /\ isProcessing' = TRUE
               /\ lastProcessTime' = ptClock
               /\ sendFrameLoops' = [sendFrameLoops EXCEPT ![l] = "await"]
               /\ sentWhileStopped' = (sentWhileStopped \/ ptStopped)
               /\ hasSent' = TRUE
               /\ sendGap' = IF hasSent
                             THEN Some([gap |-> ptClock - lastProcessTime,
                                        interval |-> processInterval])
                             ELSE NULL
    /\ UNCHANGED <<ptClock, ptIsInitialized, processInterval, landmarks, smoothedLandmarks,
                   ptStopped>>
    /\ UNCHANGED NotPoseVars

\* PoseTracker.smoothLandmarks
SmoothLandmarks(current, previous, alpha) ==
    Some(Ema(Val(current), Val(previous), alpha))

\* PoseTracker.onResults: the smoothed landmarks after a result with landmarks,
\* previous being smoothedLandmarks and factor CONFIG.SKELETON.SMOOTHING_FACTOR
OnResultsWith(result, previous, factor) ==
    IF previous # NULL /\ factor > 0
    THEN SmoothLandmarks(result, previous, factor)
    ELSE result

\* PoseTracker.onResults with the configured factor
OnResultsSmoothed(result) == OnResultsWith(result, smoothedLandmarks, SMOOTHING_FACTOR)

\* PoseTracker.isPoseDetected()
IsPoseDetected == smoothedLandmarks # NULL

\* the detector completes the invocation of loop l: onResults(result), then the
\* finally block and the next animation-frame request of sendFrame
PT_Results(l) ==
    /\ sendFrameLoops[l] = "await"
    /\ \E result \in PoseResults :
          IF result = NULL
          THEN /\ landmarks' = NULL
               /\ UNCHANGED smoothedLandmarks
          ELSE /\ landmarks' = result
               /\ smoothedLandmarks' = OnResultsSmoothed(result)
    /\ isProcessing' = FALSE
    /\ sendFrameLoops' = [sendFrameLoops EXCEPT ![l] = "raf"]
    /\ UNCHANGED <<ptClock, ptIsInitialized, lastProcessTime, processInterval,
                   ptStopped, sentWhileStopped,
                   sendGap, hasSent>>
    /\ UNCHANGED NotPoseVars

\* pose.send rejects: the catch and finally blocks of sendFrame
PT_SendError(l) ==
    /\ sendFrameLoops[l] = "await"
    /\ isProcessing' = FALSE
    /\ sendFrameLoops' = [sendFrameLoops EXCEPT ![l] = "raf"]
    /\ UNCHANGED <<ptClock, ptIsInitialized, lastProcessTime, processInterval,
                   landmarks, smoothedLandmarks, ptStopped, sentWhileStopped,
                   sendGap, hasSent>>
    /\ UNCHANGED NotPoseVars

\* PoseTracker.stop()
PT_Stop ==
    /\ landmarks' = NULL
    /\ smoothedLandmarks' = NULL
    /\ isProcessing' = FALSE
    /\ ptStopped' = TRUE
    /\ UNCHANGED <<ptClock, ptIsInitialized, lastProcessTime, processInterval,
                   sendFrameLoops, sentWhileStopped,
                   sendGap, hasSent>>
    /\ UNCHANGED NotPoseVars

\* PoseTracker.setProcessInterval(fps)
PT_SetProcessInterval ==
    /\ \E rate \in PoseFpsChoices : processInterval' = Ms(1000) \div rate
    /\ UNCHANGED <<ptClock, ptIsInitialized, isProcessing, lastProcessTime,
                   sendFrameLoops, landmarks, smoothedLandmarks, ptStopped, sentWhileStopped,
                   sendGap, hasSent>>
    /\ UNCHANGED NotPoseVars

(***************************************************************************)
(* Remote Enhancement Channel                                              *)
(***************************************************************************)

\* Bounds of the channel model.
MaxSockets == 5
MaxTimers == 2
MaxPendingKeyframes == 2

\* CONFIG.AI_PIPELINE.MAX_RECONNECT_ATTEMPTS
MAX_RECONNECT_ATTEMPTS == 3

SocketIds == 1..MaxSockets

NumSockets == Cardinality({s \in SocketIds : wsState[s] # "none"})

LiveSockets == {s \in SocketIds : wsState[s] \in {"connecting", "open", "closing"}}

\* the setInterval timers that have not been cleared
ActiveTimers == orphanTimers + (IF keyframeInterval THEN 1 ELSE 0)

AIInit ==
    /\ aiEnabled \in BOOLEAN
    /\ aiInitCalled = FALSE
    /\ wsState = [s \in SocketIds |-> "none"]
    /\ connectPromise = [s \in SocketIds |-> "none"]
    /\ ws = 0
    /\ isConnected = FALSE
    /\ reconnectAttempts = 0
    /\ reconnectWaits = 0
    /\ keyframeInterval = FALSE
    /\ orphanTimers = 0
    /\ pendingKeyframes = 0
    /\ pendingLost = 0
    /\ staleSent = FALSE
    /\ attemptsSinceOpen = 0
    /\ closedAt = NULL
    /\ appStopped = FALSE

\* AIPipeline.connect(): new WebSocket(...), the handlers and the 5 s timeout
\* are set up and the promise is returned pending
Connect ==
    /\ NumSockets < MaxSockets
    /\ LET s == NumSockets + 1
       IN  /\ wsState' = [wsState EXCEPT ![s] = "connecting"]
           /\ connectPromise' = [connectPromise EXCEPT ![s] = "pending"]
           /\ ws' = s

\* AIPipeline.start() with isConnected = connected: <<keyframeInterval, orphanTimers>>
\* after the call.  setInterval overwrites keyframeInterval without clearing the
\* timer it held.
StartTimers(connected) ==
    IF ~connected THEN <<keyframeInterval, orphanTimers>>
    ELSE <<TRUE, ActiveTimers>>

\* AIPipeline.stop(): <<keyframeInterval, orphanTimers>> after the call
StopTimers == <<FALSE, orphanTimers>>

\* AIPipeline.init()
AI_Init ==
    /\ ~aiInitCalled
    /\ aiInitCalled' = TRUE
    /\ IF aiEnabled
       THEN Connect
       ELSE UNCHANGED <<wsState, connectPromise, ws>>
    /\ UNCHANGED <<aiEnabled, isConnected, reconnectAttempts, reconnectWaits, keyframeInterval,
                   orphanTimers, pendingKeyframes, pendingLost, staleSent, attemptsSinceOpen,
                   closedAt, appStopped>>
    /\ UNCHANGED NotAIVars

\* who calls start() once connect() on socket s resolves: the first socket is
\* LucyApp.init()'s, and LucyApp.start() follows it; every later socket is created
\* by handleDisconnect(), which calls start() itself
StartedByApp(s) == s = 1

\* ws.onopen of socket s.  If the promise of its connect() call is still pending
\* it resolves and the awaiting caller continues: LucyApp.init() goes on to
\* LucyApp.start(), which calls aiPipeline.start() if isActive();
\* handleDisconnect() calls this.start() if isConnected.
AI_Open(s) ==
    /\ wsState[s] = "connecting"
    /\ wsState' = [wsState EXCEPT ![s] = "open"]
    /\ isConnected' = TRUE
    /\ reconnectAttempts' = 0
    /\ attemptsSinceOpen' = 0
    /\ IF connectPromise[s] = "pending"
       THEN /\ ActiveTimers < MaxTimers
            /\ connectPromise' = [connectPromise EXCEPT ![s] = "settled"]
            /\ keyframeInterval' = StartTimers(TRUE)[1]
            /\ orphanTimers' = StartTimers(TRUE)[2]
            /\ appStopped' = IF StartedByApp(s) THEN FALSE ELSE appStopped
       ELSE UNCHANGED <<connectPromise, keyframeInterval, orphanTimers, appStopped>>
    /\ UNCHANGED <<aiEnabled, aiInitCalled, ws, reconnectWaits, pendingKeyframes, pendingLost,
                   staleSent, closedAt>>
    /\ UNCHANGED NotAIVars

\* the guard of handleDisconnect(): the retry budget is used up
BudgetExhaustedOffByOne == reconnectAttempts > MAX_RECONNECT_ATTEMPTS

BudgetExhausted == reconnectAttempts >= MAX_RECONNECT_ATTEMPTS

\* ws.onclose of socket s (the connection failed, the server closed it, or the
\* close handshake of ws.close() ended), with handleDisconnect() up to its wait.
\* The socket can no longer open: the promise of its connect() call can only be
\* rejected by the timeout, which the callers catch and log.
AI_SocketClosed(s) ==
    /\ s \in LiveSockets
    /\ wsState' = [wsState EXCEPT ![s] = "closed"]
    /\ connectPromise' = [connectPromise EXCEPT ![s] = "settled"]
    /\ isConnected' = FALSE
    /\ IF BudgetExhausted
       THEN UNCHANGED <<reconnectAttempts, reconnectWaits>>
       ELSE /\ reconnectAttempts' = reconnectAttempts + 1
            /\ reconnectWaits' = reconnectWaits + 1
    /\ pendingLost' = IF wsState[s] = "open" THEN pendingKeyframes ELSE pendingLost
    /\ UNCHANGED <<aiEnabled, aiInitCalled, ws, keyframeInterval, orphanTimers,
                   pendingKeyframes, staleSent, attemptsSinceOpen, closedAt, appStopped>>
    /\ UNCHANGED NotAIVars

\* Utils.wait(RECONNECT_DELAY) ends in handleDisconnect(): connect()
AI_Reconnect ==
    /\ reconnectWaits > 0
    /\ reconnectWaits' = reconnectWaits - 1
    /\ Connect
    /\ attemptsSinceOpen' = attemptsSinceOpen + 1
    /\ UNCHANGED <<aiEnabled, aiInitCalled, isConnected, reconnectAttempts, keyframeInterval,
                   orphanTimers, pendingKeyframes, pendingLost, staleSent, closedAt, appStopped>>
    /\ UNCHANGED NotAIVars

\* the 5 s timeout of the connect() call of socket s, the socket still
\* connecting: rejects the promise unless the channel is Connected
AI_ConnectTimeout(s) ==
    /\ wsState[s] = "connecting"
    /\ connectPromise[s] = "pending"
    /\ ~isConnected
    /\ connectPromise' = [connectPromise EXCEPT ![s] = "settled"]
    /\ UNCHANGED <<aiEnabled, aiInitCalled, wsState, ws, isConnected, reconnectAttempts,
                   reconnectWaits, keyframeInterval, orphanTimers, pendingKeyframes,
                   pendingLost, staleSent, attemptsSinceOpen, closedAt, appStopped>>
    /\ UNCHANGED NotAIVars

\* AIPipeline.start(), called by the application
AI_Start ==
    /\ ActiveTimers < MaxTimers
    /\ keyframeInterval' = StartTimers(isConnected)[1]
    /\ orphanTimers' = StartTimers(isConnected)[2]
    /\ appStopped' = FALSE
    /\ UNCHANGED <<aiEnabled, aiInitCalled, wsState, connectPromise, ws, isConnected,
                   reconnectAttempts, reconnectWaits, pendingKeyframes, pendingLost,
                   staleSent, attemptsSinceOpen, closedAt>>
    /\ UNCHANGED NotAIVars

\* AIPipeline.stop()
AI_Stop ==
    /\ keyframeInterval' = StopTimers[1]
    /\ orphanTimers' = StopTimers[2]
    /\ appStopped' = (StopTimers[2] = 0 /\ (keyframeInterval \/ appStopped))
    /\ UNCHANGED <<aiEnabled, aiInitCalled, wsState, connectPromise, ws, isConnected,
                   reconnectAttempts, reconnectWaits, pendingKeyframes, pendingLost,
                   staleSent, attemptsSinceOpen, closedAt>>
    /\ UNCHANGED NotAIVars

\* AIPipeline.close(): stop(), ws.close(), this.ws = null, isConnected = false
AI_Close ==
    /\ keyframeInterval' = StopTimers[1]
    /\ orphanTimers' = StopTimers[2]
    /\ IF ws # 0 /\ wsState[ws] \in {"connecting", "open"}
       THEN wsState' = [wsState EXCEPT ![ws] = "closing"]
       ELSE UNCHANGED wsState
    /\ ws' = 0
    /\ isConnected' = FALSE
    /\ pendingLost' = IF ws # 0 /\ wsState[ws] = "open" THEN pendingKeyframes ELSE pendingLost
    /\ closedAt' = IF closedAt = NULL /\ isConnected THEN Some(NumSockets) ELSE closedAt
    /\ UNCHANGED <<aiEnabled, aiInitCalled, connectPromise, reconnectAttempts,
                   reconnectWaits, pendingKeyframes, staleSent, attemptsSinceOpen,
                   appStopped>>
    /\ UNCHANGED NotAIVars

\* a keyframe interval timer fires: sendKeyframe() up to its await of the
\* camera capture
AI_KeyframeTick ==
    /\ ActiveTimers > 0
    /\ \E cameraReady \in BOOLEAN :
          IF ~isConnected \/ ~cameraReady
          THEN UNCHANGED pendingKeyframes
          ELSE /\ pendingKeyframes < MaxPendingKeyframes
               /\ pendingKeyframes' = pendingKeyframes + 1
    /\ UNCHANGED <<aiEnabled, aiInitCalled, wsState, connectPromise, ws, isConnected,
                   reconnectAttempts, reconnectWaits, keyframeInterval, orphanTimers,
                   pendingLost, staleSent, attemptsSinceOpen, closedAt, appStopped>>
    /\ UNCHANGED NotAIVars

\* this.ws.send(payload) transmits: this.ws is a socket and it is open (send() throws
\* on null and on a connecting socket, and discards on a closing or closed one)
Transmits == ws # 0 /\ wsState[ws] = "open"

\* the camera capture of a pending sendKeyframe() call ends (lost: the call is one
\* whose connection was lost meanwhile): the rest of sendKeyframe(), which
\* transmits, or throws into its catch block
AI_KeyframeSend ==
    /\ pendingKeyframes > 0
    /\ pendingKeyframes' = pendingKeyframes - 1
    /\ \E lost \in BOOLEAN, captured \in BOOLEAN :
          /\ lost => pendingLost > 0
          /\ ~lost => pendingKeyframes > pendingLost
          /\ pendingLost' = IF lost THEN pendingLost - 1 ELSE pendingLost
          /\ staleSent' = (staleSent \/ (lost /\ captured /\ Transmits))
    /\ UNCHANGED <<aiEnabled, aiInitCalled, wsState, connectPromise, ws, isConnected,
                   reconnectAttempts, reconnectWaits, keyframeInterval, orphanTimers,
                   attemptsSinceOpen, closedAt, appStopped>>
    /\ UNCHANGED NotAIVars

NextAI ==
    \/ AI_Init
    \/ \E s \in SocketIds : AI_Open(s)
    \/ \E s \in SocketIds : AI_SocketClosed(s)
    \/ AI_Reconnect
    \/ \E s \in SocketIds : AI_ConnectTimeout(s)
    \/ AI_Start
    \/ AI_Stop
    \/ AI_Close
    \/ AI_KeyframeTick
    \/ AI_KeyframeSend

(***************************************************************************)
(* Enhancement frames and blend transition                                 *)
(*                                                                         *)
(* Alpha and progress in thousandths.                                      *)
(***************************************************************************)

\* Bound of the blend model: the clock stops here.
MaxBlendTime == 2250

\* CONFIG.AI_PIPELINE.BLEND_TRANSITION_DURATION, in ms
BLEND_TRANSITION_DURATION == 500

\* CONFIG.AI_PIPELINE.MAX_BLEND_ALPHA
MAX_BLEND_ALPHA == 700

\* the advance of the clock between two events: 100 ms or 250 ms
BlendTickSteps == {Ms(100), Ms(250)}

\* what the server sends: result messages with an image and a timestamp, an
\* error message, and data that is no JSON
ServerMessages ==
    { [type |-> "keyframe_result", image |-> i, timestamp |-> t] : i \in {1, 2}, t \in {1, 2} }
    \cup { [type |-> "error", image |-> 0, timestamp |-> 0],
           [type |-> "malformed", image |-> 0, timestamp |-> 0] }

BlendInit ==
    /\ blendClock = 0
    /\ latestAIFrame = NULL
    /\ blendAlpha = 0
    /\ isBlending = FALSE
    /\ blendStart = NULL
    /\ animatePending = FALSE
    /\ prevReceived = NULL
    /\ lastReceived = NULL
    /\ receivedAt = NULL
    /\ lastHandled = "none"
    /\ failureBefore = FALSE
    /\ frameAlphas = <<>>

\* performance.now() advances
Blend_Tick ==
    /\ \E d \in BlendTickSteps :
          /\ blendClock + d <= MaxBlendTime
          /\ blendClock' = blendClock + d
    /\ UNCHANGED <<latestAIFrame, blendAlpha, isBlending, blendStart, animatePending,
                   prevReceived, lastReceived, receivedAt, lastHandled,
                   failureBefore, frameAlphas>>
    /\ UNCHANGED NotBlendVars

\* a handleMessage() that keeps the frame of the newest timestamp
StoredFrameNewestTimestamp(message) ==
    IF lastReceived # NULL /\ message.timestamp < Val(lastReceived).timestamp
    THEN latestAIFrame
    ELSE Some(message.image)

\* handleMessage(): latestAIFrame after a result message
StoredFrame(message) == Some(message.image)

\* a handleMessage() that drops the retained frame on an error message or a
\* parse failure
FrameDroppedOnFailure == NULL

\* handleMessage(): latestAIFrame after an error message or a parse failure,
\* which only log
FrameAfterFailure == latestAIFrame

\* the message is an error message or data that JSON.parse() rejects
IsFailure(type) == type \in {"error", "malformed"}

\* the guard of startBlend(): a transition begins
StartBlendBegins == ~isBlending

\* ws.onmessage of an open socket: AIPipeline.handleMessage(data), with
\* startBlend() for a result message
AI_Message(message) ==
    /\ \E s \in SocketIds : wsState[s] = "open"
    /\ IF message.type = "keyframe_result"
       THEN /\ latestAIFrame' = StoredFrame(message)
            /\ prevReceived' = lastReceived
            /\ lastReceived' = Some(message)
            /\ receivedAt' = Some(blendClock)
            /\ IF StartBlendBegins
               THEN /\ isBlending' = TRUE
                    /\ blendStart' = Some(blendClock)
                    /\ animatePending' = TRUE
                    /\ frameAlphas' = <<>>
               ELSE UNCHANGED <<isBlending, blendStart, animatePending, frameAlphas>>
            /\ failureBefore' = IsFailure(lastHandled)
       ELSE /\ latestAIFrame' = FrameAfterFailure
            /\ UNCHANGED <<prevReceived, lastReceived, receivedAt, isBlending,
                           blendStart, animatePending, failureBefore, frameAlphas>>
    /\ lastHandled' = message.type
    /\ UNCHANGED <<blendClock, blendAlpha>>
    /\ UNCHANGED NotBlendVars

\* a progress without Math.min(.., 1)
BlendProgressUnbounded(elapsed) == (elapsed * 1000) \div Ms(BLEND_TRANSITION_DURATION)

\* the progress of the transition at elapsed time
BlendProgress(elapsed) ==
    LET progress == (elapsed * 1000) \div Ms(BLEND_TRANSITION_DURATION)
    IN  IF progress < 1000 THEN progress ELSE 1000

\* ease-out cubic: 1 - (1 - progress)^3
EasedProgress(progress) ==
    1000 - ((1000 - progress) * (1000 - progress) * (1000 - progress)) \div 1000000

\* the animate callback of startBlend() runs in an animation frame
Blend_Animate ==
    /\ animatePending
    /\ LET progress == BlendProgress(blendClock - Val(blendStart))
           alpha == (EasedProgress(progress) * MAX_BLEND_ALPHA) \div 1000
       IN  /\ blendAlpha' = alpha
           /\ frameAlphas' = IF frameAlphas = <<>> THEN <<alpha>>
                              ELSE <<frameAlphas[Len(frameAlphas)], alpha>>
           /\ IF progress < 1000
              THEN UNCHANGED <<isBlending, animatePending>>
              ELSE /\ isBlending' = FALSE
                   /\ animatePending' = FALSE
    /\ UNCHANGED <<blendClock, latestAIFrame, blendStart, prevReceived, lastReceived,
                   receivedAt, lastHandled, failureBefore>>
    /\ UNCHANGED NotBlendVars

NextBlend ==
    \/ AI_Init
    \/ \E s \in SocketIds : AI_Open(s)
    \/ Blend_Tick
    \/ \E message \in ServerMessages : AI_Message(message)
    \/ Blend_Animate

(***************************************************************************)
(* Composite Render Loop                                                   *)
(***************************************************************************)

\* Bound of the render loop model: the number of clock advances.
MaxRenderTicks == 5

\* CONFIG.PERFORMANCE.TARGET_FPS
TARGET_FPS == 30

\* CONFIG.PERFORMANCE.LOW_PERFORMANCE_THRESHOLD
LOW_PERFORMANCE_THRESHOLD == 20

\* CompositeRenderer.fpsHistorySize
FpsHistorySize == 10

\* the advance of the clock between two events: a 90 Hz frame
\* (11 ms), a 60 Hz frame, and a stall of one second
RenderTickSteps == {Ms(11), Ms(1000) \div 60, Ms(1000)}

\* a render scale: v ten-thousandths, plus a rounding excess of the floating-point
\* subtraction when above (0.8 - 0.1 = 0.7000000000000001)
Scale(v, above) == [v |-> v, above |-> above]

\* scale > 0.5
ScaleAboveMin(scale) == scale.v > 5000 \/ (scale.v = 5000 /\ scale.above)

\* Math.max(0.5, scale - 0.1)
ReducedScale(scale) ==
    IF scale.v - 1000 < 5000 THEN Scale(5000, FALSE)
    ELSE Scale(scale.v - 1000, scale.above \/ scale.v <= 8000)

RInit ==
    /\ rClock = 0
    /\ rTicks = 0
    /\ isRunning = FALSE
    /\ animationId = 0
    /\ rafPending = {}
    /\ lastRenderTime = 0
    /\ frameCount = 0
    /\ lastFpsUpdate = 0
    /\ fpsHistory = <<>>
    /\ fps = 0
    /\ renderScale = Scale(8000, FALSE)
    /\ lastAccepted = NULL
    /\ acceptedGap = NULL
    /\ lastFrameThrew = FALSE
    /\ lastFrameScale = NULL
    /\ scaleRose = FALSE
    /\ unpausedStall = FALSE

\* a time without a frame that a loop at LOW_PERFORMANCE_THRESHOLD frames per
\* second or more does not have
TooLong(d) == d > Ms(1000) \div LOW_PERFORMANCE_THRESHOLD

\* performance.now() advances
R_Tick ==
    /\ rTicks < MaxRenderTicks
    /\ rTicks' = rTicks + 1
    /\ \E d \in RenderTickSteps :
          /\ rClock' = rClock + d
          /\ unpausedStall' =
                (unpausedStall \/ (TooLong(d) /\ (isRunning \/ lastAccepted = NULL)))
    /\ UNCHANGED <<isRunning, animationId, rafPending, lastRenderTime, frameCount,
                   lastFpsUpdate, fpsHistory, fps, renderScale, lastAccepted, acceptedGap,
                   lastFrameThrew, lastFrameScale, scaleRose>>
    /\ UNCHANGED NotRenderVars

\* Math.round(n / d) for n >= 0, d > 0
RoundDiv(n, d) == (2 * n + d) \div (2 * d)

RECURSIVE SeqSum(_)
SeqSum(q) == IF q = <<>> THEN 0 ELSE Head(q) + SeqSum(Tail(q))

\* fpsHistory after push(instantFps) and the shift() that keeps fpsHistorySize samples
PushFps(history, instantFps) ==
    LET pushed == Append(history, instantFps)
    IN  IF Len(pushed) > FpsHistorySize THEN Tail(pushed) ELSE pushed

\* getAverageFPS() < LOW_PERFORMANCE_THRESHOLD (an empty history averages 30)
AverageFpsLow(history) ==
    IF history = <<>> THEN 30 < LOW_PERFORMANCE_THRESHOLD
    ELSE SeqSum(history) < LOW_PERFORMANCE_THRESHOLD * Len(history)

\* CompositeRenderer.adaptiveQuality(): RENDER_SCALE after the call
AdaptiveQuality(history, scale) ==
    IF AverageFpsLow(history) /\ ScaleAboveMin(scale) THEN ReducedScale(scale) ELSE scale

\* a render() without the frame limiter
SkipsFrameUncapped(delta) == FALSE

\* the frame limiter of render(): the frame is skipped
SkipsFrame(delta) == delta < (Ms(1000) \div TARGET_FPS) - Ms(1)

\* the frame request of a render() call: the smallest free request id
NextRequest(pending) ==
    CHOOSE r \in 1..(Cardinality(pending) + 1) : r \notin pending

\* a render() whose frame request is lost when the frame throws
FrameRequestsLostOnThrow(pending, threw) ==
    IF threw THEN pending ELSE pending \cup {NextRequest(pending)}

\* the frame requests pending after a render() call: the next frame is requested
\* before the try block, whether the frame throws or not
FrameRequests(pending, threw) == pending \cup {NextRequest(pending)}

\* CompositeRenderer.updateFPS() and adaptiveQuality() of an accepted frame
UpdateFPS ==
    LET elapsed == rClock - lastFpsUpdate
        instantFps == RoundDiv((frameCount + 1) * Ms(1000), elapsed)
        history == PushFps(fpsHistory, instantFps)
    IN  IF elapsed >= Ms(1000)
        THEN /\ fpsHistory' = history
             /\ fps' = RoundDiv(SeqSum(history), Len(history))
             /\ frameCount' = 0
             /\ lastFpsUpdate' = rClock
             /\ renderScale' = AdaptiveQuality(history, renderScale)
        ELSE /\ frameCount' = frameCount + 1
             /\ UNCHANGED <<lastFpsUpdate, fpsHistory, fps>>
             /\ renderScale' = AdaptiveQuality(fpsHistory, renderScale)

\* the scale of an accepted frame is higher than that of the frame before
ScaleRises(previous, scale) ==
    /\ previous # NULL
    /\ \/ scale.v > Val(previous).v
       \/ (scale.v = Val(previous).v /\ scale.above /\ ~Val(previous).above)

\* CompositeRenderer.render() while running, the frame requests being pending
\* before the call: request the next frame, then the limited frame
Render(pending) ==
    /\ animationId' = NextRequest(pending)
    /\ IF SkipsFrame(rClock - lastRenderTime)
       THEN /\ rafPending' = FrameRequests(pending, FALSE)
            /\ UNCHANGED <<lastRenderTime, frameCount, lastFpsUpdate, fpsHistory, fps,
                           renderScale, lastAccepted, acceptedGap, lastFrameThrew,
                           lastFrameScale, scaleRose, unpausedStall>>
       ELSE /\ lastRenderTime' = rClock
            /\ lastFrameScale' = Some(renderScale)
            /\ scaleRose' = (scaleRose \/ ScaleRises(lastFrameScale, renderScale))
            /\ unpausedStall' = (unpausedStall \/ TooLong(rClock - lastRenderTime))
            /\ lastAccepted' = Some(rClock)
            /\ acceptedGap' = IF lastAccepted = NULL THEN NULL
                              ELSE Some(rClock - Val(lastAccepted))
            /\ \E threw \in BOOLEAN :
                  /\ lastFrameThrew' = threw
                  /\ rafPending' = FrameRequests(pending, threw)
                  /\ IF threw
                     THEN UNCHANGED <<frameCount, lastFpsUpdate, fpsHistory, fps, renderScale>>
                     ELSE UpdateFPS

\* a start() without its early return
StartNeverReturnsEarly == FALSE

\* CompositeRenderer.start(): if (this.isRunning) return
StartReturnsEarly == isRunning

\* CompositeRenderer.start(), on the renderer's fields
StartRenderer ==
    /\ IF StartReturnsEarly
       THEN UNCHANGED <<isRunning, animationId, rafPending, lastRenderTime, frameCount,
                        lastFpsUpdate, fpsHistory, fps, renderScale, lastAccepted,
                        acceptedGap, lastFrameThrew, lastFrameScale, scaleRose,
                        unpausedStall>>
       ELSE /\ isRunning' = TRUE
            /\ lastRenderTime' = rClock
            /\ animationId' = NextRequest(rafPending)
            /\ rafPending' = FrameRequests(rafPending, FALSE)
            /\ UNCHANGED <<frameCount, lastFpsUpdate, fpsHistory, fps, renderScale,
                           lastAccepted, acceptedGap, lastFrameThrew, lastFrameScale,
                           scaleRose, unpausedStall>>

\* CompositeRenderer.start()
R_Start ==
    /\ StartRenderer
    /\ UNCHANGED <<rClock, rTicks>>
    /\ UNCHANGED NotRenderVars

\* a stop() that does not cancel the frame request
StopLeavesRequest == rafPending

\* CompositeRenderer.stop(): the frame requests still pending after
\* cancelAnimationFrame(animationId)
StopCancels == IF animationId # 0 THEN rafPending \ {animationId} ELSE rafPending

\* CompositeRenderer.stop(), on the renderer's fields
StopRenderer ==
    /\ isRunning' = FALSE
    /\ rafPending' = StopCancels
    /\ animationId' = 0
    /\ UNCHANGED <<lastRenderTime, frameCount, lastFpsUpdate, fpsHistory, fps,
                   renderScale, lastAccepted, acceptedGap, lastFrameThrew, lastFrameScale,
                   scaleRose, unpausedStall>>

\* CompositeRenderer.stop()
R_Stop ==
    /\ StopRenderer
    /\ UNCHANGED <<rClock, rTicks>>
    /\ UNCHANGED NotRenderVars

\* the display's vsync fires the frame request r: the callback calls render()
R_Vsync(r) ==
    /\ r \in rafPending
    /\ IF isRunning
       THEN Render(rafPending \ {r})
       ELSE /\ rafPending' = rafPending \ {r}
            /\ UNCHANGED <<animationId, lastRenderTime, frameCount, lastFpsUpdate, fpsHistory,
                           fps, renderScale, lastAccepted, acceptedGap, lastFrameThrew,
                           lastFrameScale, scaleRose, unpausedStall>>
    /\ UNCHANGED <<rClock, rTicks, isRunning>>
    /\ UNCHANGED NotRenderVars

\* CompositeRenderer.takeScreenshot(): the scale is set to 1.0 and put back after
\* the capture; a throw of sceneManager.render() or toDataURL() leaves the
\* function before the scale is put back
R_TakeScreenshot ==
    /\ \E threw \in BOOLEAN :
          renderScale' = IF threw THEN Scale(10000, FALSE) ELSE renderScale
    /\ UNCHANGED <<rClock, rTicks, isRunning, animationId, rafPending, lastRenderTime,
                   frameCount, lastFpsUpdate, fpsHistory, fps, lastAccepted, acceptedGap,
                   lastFrameThrew, lastFrameScale, scaleRose, unpausedStall>>
    /\ UNCHANGED NotRenderVars

NextRender ==
    \/ R_Tick
    \/ R_Start
    \/ R_Stop
    \/ \E r \in rafPending : R_Vsync(r)
    \/ R_TakeScreenshot

(***************************************************************************)
(* Skeletal Mapper                                                         *)
(*                                                                         *)
(* Coordinates, scales and visibilities in thousandths, angles in          *)
(* milliradians.                                                           *)
(***************************************************************************)

\* Bound of the mapper model: the clock stops here.
MaxMapperTime == 100

\* SkeletonMapper.smoothingFactor
smoothingFactor == 200

\* Math.PI
PI == 3142

\* the visibility threshold update() passes to arePointsVisible()
MinVisibility == 300

\* the number of landmarks update() requires
MinLandmarks == 33

\* CONFIG.JACKET.SCALE
JACKET_SCALE == 1000

\* the advance of the clock between two events: a 120 Hz or a 60 Hz frame
MapperTickSteps == {Ms(1000) \div 120, Ms(1000) \div 60}

\* setUpdateInterval(fps) as called
MapperFpsChoices == {30, 60}

\* updateCalibration(params) as called
CalibrationParams == {[scaleMultiplier |-> 8000, verticalOffset |-> 0 - 1000]}

Landmark(x, y, z, visibility) == [x |-> x, y |-> y, z |-> z, visibility |-> visibility]

\* the shoulders and the nose of a pose: narrow and level at height 0.3, wide and
\* turned at height 0.5, shoulders collapsed onto one point at height 0.4
Geometries ==
    { [left |-> <<600, 300, 0>>, right |-> <<400, 300, 0>>, noseY |-> 200],
      [left |-> <<800, 500, 0>>, right |-> <<200, 500, 0 - 600>>, noseY |-> 300],
      [left |-> <<500, 400, 0>>, right |-> <<500, 400, 0>>, noseY |-> 300] }

\* landmark.visibility: undefined, or a value
Visibilities == {NULL, Some(200), Some(300), Some(301)}

LandmarkCounts == {32, 33, 34}

\* the pose snapshots the Pose Source delivers, and no snapshot
PoseInputs ==
    {NULL} \cup
    { Some([ count |-> n,
             leftShoulder |-> Landmark(g.left[1], g.left[2], g.left[3], vl),
             rightShoulder |-> Landmark(g.right[1], g.right[2], g.right[3], vr),
             nose |-> Landmark(500, g.noseY, 0, Some(900)) ]) :
        n \in LandmarkCounts, g \in Geometries, vl \in Visibilities, vr \in Visibilities }

\* the garment as ModelLoader.loadJacket() adds it to the scene
LoadedJacket ==
    [position |-> <<0, 0, 0>>, rotation |-> <<0, 0, 0>>, scale |-> JACKET_SCALE,
     visible |-> FALSE]

SMInit ==
    /\ smClock = 0
    /\ initialized = FALSE
    /\ lastPosition = Some(<<0, 0, 0>>)
    /\ lastRotation = Some(<<0, 0, 0>>)
    /\ lastScale = Some(1000)
    /\ lastUpdateTime = 0
    /\ updateInterval = Ms(1000) \div 60
    /\ calibration = [scaleMultiplier |-> 5500, depthMultiplier |-> 0 - 8000,
                      verticalOffset |-> 0, horizontalOffset |-> 6000]
    /\ lastPose = NULL
    /\ jacket = NULL
    /\ updateOutcome = "none"
    /\ updateLowVisibility = FALSE
    /\ updateCount = NULL
    /\ prevApplied = NULL
    /\ lastApplied = NULL
    /\ appliedAt = NULL
    /\ jacketBefore = NULL

\* Math.sqrt(n), to the thousandth below
RECURSIVE SqrtBetween(_, _, _)
SqrtBetween(n, lo, hi) ==
    IF lo >= hi THEN lo
    ELSE LET mid == (lo + hi + 1) \div 2
         IN  IF mid * mid <= n THEN SqrtBetween(n, mid, hi) ELSE SqrtBetween(n, lo, mid - 1)

Sqrt(n) == SqrtBetween(n, 0, 2000)

\* Math.atan2(y, x) on the axes and the diagonals
Atan2(y, x) ==
    CASE y = 0 /\ x >= 0 -> 0
      [] y = 0 /\ x < 0 -> PI
      [] x = 0 /\ y > 0 -> 1571
      [] x = 0 /\ y < 0 -> 0 - 1571
      [] x > 0 /\ y = x -> 785
      [] x > 0 /\ y = 0 - x -> 0 - 785
      [] x < 0 /\ y = 0 - x -> 2356
      [] x < 0 /\ y = x -> 0 - 2356

\* a shoulder width that measures the horizontal distance only
ShoulderWidthHorizontal(leftShoulder, rightShoulder) ==
    LET dx == rightShoulder.x - leftShoulder.x
    IN  Sqrt(dx * dx)

\* the distance of the shoulders in the image plane
ShoulderWidth(leftShoulder, rightShoulder) ==
    LET dx == rightShoulder.x - leftShoulder.x
        dy == rightShoulder.y - leftShoulder.y
    IN  Sqrt(dx * dx + dy * dy)

\* a calculatePosition() that keeps the image's Y direction
CalculatePositionUnflipped(leftShoulder, rightShoulder) ==
    LET cx == (leftShoulder.x + rightShoulder.x) \div 2
        cy == (leftShoulder.y + rightShoulder.y) \div 2
        cz == (leftShoulder.z + rightShoulder.z) \div 2
    IN  << (cx - 500) * 5 + calibration.horizontalOffset,
           (cy - 500) * 5 + calibration.verticalOffset,
           calibration.depthMultiplier + cz * 2 >>

CalculatePosition(leftShoulder, rightShoulder) ==
    LET cx == (leftShoulder.x + rightShoulder.x) \div 2
        cy == (leftShoulder.y + rightShoulder.y) \div 2
        cz == (leftShoulder.z + rightShoulder.z) \div 2
    IN  << (cx - 500) * 5 + calibration.horizontalOffset,
           (0 - (cy - 500)) * 5 + calibration.verticalOffset,
           calibration.depthMultiplier + cz * 2 >>

CalculateRotation(leftShoulder, rightShoulder, nose) ==
    LET dx == rightShoulder.x - leftShoulder.x
        dy == rightShoulder.y - leftShoulder.y
        rollAngle == Atan2(dy, dx)
        depthDiff == rightShoulder.z - leftShoulder.z
        yawAngle == (Atan2(depthDiff, ShoulderWidth(leftShoulder, rightShoulder)) * 3) \div 2
        shoulderCenterY == (leftShoulder.y + rightShoulder.y) \div 2
        pitchAngle == ((nose.y - shoulderCenterY) * 3) \div 10
    IN  <<PI + pitchAngle, PI + yawAngle, 0 - rollAngle>>

CalculateScale(leftShoulder, rightShoulder) ==
    Clamp((ShoulderWidth(leftShoulder, rightShoulder) * calibration.scaleMultiplier) \div 1000,
          1000, 4500)

\* smoothPosition() and smoothRotation(): the smoothed vector, which is also the
\* new lastPosition or lastRotation
SmoothVector(v, last) ==
    IF last = NULL THEN v
    ELSE << Ema(v[1], Val(last)[1], smoothingFactor),
            Ema(v[2], Val(last)[2], smoothingFactor),
            Ema(v[3], Val(last)[3], smoothingFactor) >>

\* smoothScale(): !this.lastScale holds for null and for 0
SmoothScale(scale, last) ==
    IF last = NULL \/ Val(last) = 0 THEN scale ELSE Ema(scale, Val(last), smoothingFactor)

\* an arePointsVisible() that accepts a visibility equal to the threshold
ArePointsVisibleInclusive(points, minVisibility) ==
    \A i \in DOMAIN points :
        points[i].visibility # NULL /\ Val(points[i].visibility) >= minVisibility

ArePointsVisible(points, minVisibility) ==
    \A i \in DOMAIN points :
        points[i].visibility # NULL /\ Val(points[i].visibility) > minVisibility

\* a shoulder of the pose has a visibility of at most 0.3
LowShoulderVisibility(poseData) ==
    /\ poseData # NULL
    /\ \E p \in {Val(poseData).leftShoulder, Val(poseData).rightShoulder} :
          p.visibility # NULL /\ Val(p.visibility) <= 300

\* performance.now() advances
SM_Tick ==
    /\ \E d \in MapperTickSteps :
          /\ smClock + d <= MaxMapperTime
          /\ smClock' = smClock + d
    /\ UNCHANGED <<initialized, lastPosition, lastRotation, lastScale, lastUpdateTime,
                   updateInterval, calibration, lastPose, jacket, updateOutcome,
                   updateLowVisibility, updateCount, jacketBefore, prevApplied,
                   lastApplied, appliedAt>>
    /\ UNCHANGED NotMapperVars

\* ModelLoader.loadJacket() resolves
SM_LoadJacket ==
    /\ jacket = NULL
    /\ jacket' = Some(LoadedJacket)
    /\ updateOutcome' = "none"
    /\ updateLowVisibility' = FALSE
    /\ updateCount' = NULL
    /\ UNCHANGED <<prevApplied, lastApplied, appliedAt>>
    /\ jacketBefore' = NULL
    /\ UNCHANGED <<smClock, initialized, lastPosition, lastRotation, lastScale,
                   lastUpdateTime, updateInterval, calibration, lastPose>>
    /\ UNCHANGED NotMapperVars

\* SkeletonMapper.init(width, height)
SM_Init ==
    /\ initialized' = TRUE
    /\ UNCHANGED <<smClock, lastPosition, lastRotation, lastScale, lastUpdateTime,
                   updateInterval, calibration, lastPose, jacket, updateOutcome,
                   updateLowVisibility, updateCount, jacketBefore, prevApplied,
                   lastApplied, appliedAt>>
    /\ UNCHANGED NotMapperVars

\* the accepted part of update(): transform, smooth, write to the garment
ApplyPose(poseData) ==
    LET pose == Val(poseData)
        position == SmoothVector(CalculatePosition(pose.leftShoulder, pose.rightShoulder),
                                 lastPosition)
        rotation == SmoothVector(CalculateRotation(pose.leftShoulder, pose.rightShoulder,
                                                   pose.nose),
                                 lastRotation)
        scale == SmoothScale(CalculateScale(pose.leftShoulder, pose.rightShoulder), lastScale)
    IN  /\ lastPosition' = Some(position)
        /\ lastRotation' = Some(rotation)
        /\ lastScale' = Some(scale)
        /\ jacket' = Some([position |-> position, rotation |-> rotation, scale |-> scale,
                           visible |-> TRUE])
        /\ lastPose' = poseData
        /\ prevApplied' = lastApplied
        /\ appliedAt' = Some(smClock)
        /\ lastApplied' =
              Some([shoulderY |-> (pose.leftShoulder.y + pose.rightShoulder.y) \div 2,
                    verticalOffset |-> calibration.verticalOffset,
                    computedY |-> CalculatePosition(pose.leftShoulder, pose.rightShoulder)[2],
                    writtenY |-> position[2]])

\* SkeletonMapper.update(poseData)
SM_Update(poseData) ==
    /\ updateLowVisibility' = LowShoulderVisibility(poseData)
    /\ updateCount' = IF poseData = NULL THEN NULL ELSE Some(Val(poseData).count)
    /\ jacketBefore' = jacket
    /\ IF ~initialized \/ poseData = NULL
       THEN /\ updateOutcome' = "skipped"
            /\ UNCHANGED <<lastUpdateTime, lastPosition, lastRotation, lastScale, jacket,
                           lastPose, prevApplied, lastApplied, appliedAt>>
       ELSE IF smClock - lastUpdateTime < updateInterval
       THEN /\ updateOutcome' = "throttled"
            /\ UNCHANGED <<lastUpdateTime, lastPosition, lastRotation, lastScale, jacket,
                           lastPose, prevApplied, lastApplied, appliedAt>>
       ELSE /\ lastUpdateTime' = smClock
            /\ IF jacket = NULL
               THEN /\ updateOutcome' = "noJacket"
                    /\ UNCHANGED <<lastPosition, lastRotation, lastScale, jacket, lastPose,
                                   prevApplied, lastApplied, appliedAt>>
               ELSE IF Val(poseData).count < MinLandmarks
               THEN /\ updateOutcome' = "invalidLandmarks"
                    /\ UNCHANGED <<lastPosition, lastRotation, lastScale, jacket, lastPose,
                                   prevApplied, lastApplied, appliedAt>>
               ELSE IF ~ArePointsVisible(<<Val(poseData).leftShoulder,
                                           Val(poseData).rightShoulder>>, MinVisibility)
               THEN /\ updateOutcome' = "shouldersNotVisible"
                    /\ UNCHANGED <<lastPosition, lastRotation, lastScale, jacket, lastPose,
                                   prevApplied, lastApplied, appliedAt>>
               ELSE /\ updateOutcome' = "applied"
                    /\ ApplyPose(poseData)
    /\ UNCHANGED <<smClock, initialized, updateInterval, calibration>>
    /\ UNCHANGED NotMapperVars

\* SkeletonMapper.reset()
SM_Reset ==
    /\ lastPosition' = NULL
    /\ lastRotation' = NULL
    /\ lastScale' = NULL
    /\ lastPose' = NULL
    /\ UNCHANGED <<smClock, initialized, lastUpdateTime, updateInterval, calibration, jacket,
                   updateOutcome, updateLowVisibility, updateCount, jacketBefore, prevApplied,
                   lastApplied, appliedAt>>
    /\ UNCHANGED NotMapperVars

\* SkeletonMapper.updateCalibration(params)
SM_UpdateCalibration(params) ==
    /\ calibration' = [k \in DOMAIN calibration |->
                          IF k \in DOMAIN params THEN params[k] ELSE calibration[k]]
    /\ UNCHANGED <<smClock, initialized, lastPosition, lastRotation, lastScale,
                   lastUpdateTime, updateInterval, lastPose, jacket, updateOutcome,
                   updateLowVisibility, updateCount, jacketBefore, prevApplied,
                   lastApplied, appliedAt>>
    /\ UNCHANGED NotMapperVars

\* SkeletonMapper.setUpdateInterval(fps)
SM_SetUpdateInterval ==
    /\ \E rate \in MapperFpsChoices : updateInterval' = Ms(1000) \div rate
    /\ UNCHANGED <<smClock, initialized, lastPosition, lastRotation, lastScale,
                   lastUpdateTime, calibration, lastPose, jacket, updateOutcome,
                   updateLowVisibility, updateCount, jacketBefore, prevApplied,
                   lastApplied, appliedAt>>
    /\ UNCHANGED NotMapperVars

\* forceShowJacket() and hideJacket(): the garment after the call
WithVisible(model, visible) ==
    IF model = NULL THEN NULL ELSE Some([Val(model) EXCEPT !.visible = visible])

\* SkeletonMapper.forceShowJacket()
SM_ForceShowJacket ==
    /\ jacket' = WithVisible(jacket, TRUE)
    /\ updateOutcome' = "none"
    /\ updateLowVisibility' = FALSE
    /\ updateCount' = NULL
    /\ UNCHANGED <<prevApplied, lastApplied, appliedAt>>
    /\ jacketBefore' = NULL
    /\ UNCHANGED <<smClock, initialized, lastPosition, lastRotation, lastScale,
                   lastUpdateTime, updateInterval, calibration, lastPose>>
    /\ UNCHANGED NotMapperVars

\* SkeletonMapper.hideJacket()
SM_HideJacket ==
    /\ jacket' = WithVisible(jacket, FALSE)
    /\ updateOutcome' = "none"
    /\ updateLowVisibility' = FALSE
    /\ updateCount' = NULL
    /\ UNCHANGED <<prevApplied, lastApplied, appliedAt>>
    /\ jacketBefore' = NULL
    /\ UNCHANGED <<smClock, initialized, lastPosition, lastRotation, lastScale,
                   lastUpdateTime, updateInterval, calibration, lastPose>>
    /\ UNCHANGED NotMapperVars

NextMapper ==
    \/ SM_Tick
    \/ SM_LoadJacket
    \/ SM_Init
    \/ \E poseData \in PoseInputs : SM_Update(poseData)
    \/ SM_Reset
    \/ \E params \in CalibrationParams : SM_UpdateCalibration(params)
    \/ SM_SetUpdateInterval
    \/ SM_ForceShowJacket
    \/ SM_HideJacket

(***************************************************************************)
(* The mapper's scale over a scripted pose sequence                        *)
(***************************************************************************)

\* Bound of the script: the number of poses.
MaxScriptLen == 6

\* the shoulder vectors <<dx, dy>> of the scripted poses, from collapsed to wider
\* than the clamp admits, level and tilted
ScriptShoulders ==
    {<<0, 0>>, <<200, 0>>, <<300, 0>>, <<300, 400>>, <<0, 600>>, <<800, 0>>, <<900, 0>>}

\* the shoulders of a scripted pose, around the image centre
ScriptLeft(d) == Landmark(500, 300, 0, Some(900))

ScriptRight(d) == Landmark(500 + d[1], 300 + d[2], 0, Some(900))

\* the shoulder width the script gives its pose
ScriptWidth(d) == Sqrt(d[1] * d[1] + d[2] * d[2])

ScriptInit ==
    /\ scriptLastScale = Some(1000)
    /\ scriptLen = 0
    /\ scriptWidth = NULL
    /\ scriptTarget = NULL
    /\ scriptWritten = NULL
    /\ scriptPrev = NULL
    /\ scriptRepeated = FALSE

\* SkeletonMapper.reset() before the script: lastScale = null
Script_Reset ==
    /\ scriptLen = 0
    /\ scriptLastScale # NULL
    /\ scriptLastScale' = NULL
    /\ UNCHANGED <<scriptLen, scriptWidth, scriptTarget, scriptWritten, scriptPrev,
                   scriptRepeated>>
    /\ UNCHANGED NotScriptVars

\* an accepted update() with the next pose of the script, no narrower than the
\* pose before: calculateScale(), smoothScale() and jacket.scale.set()
Script_Update(d) ==
    /\ scriptLen < MaxScriptLen
    /\ LET width == ScriptWidth(d)
           scale == CalculateScale(ScriptLeft(d), ScriptRight(d))
           smoothedScale == SmoothScale(scale, scriptLastScale)
       IN  /\ scriptWidth # NULL => width >= Val(scriptWidth)
           /\ scriptLen' = scriptLen + 1
           /\ scriptWidth' = Some(width)
           /\ scriptTarget' = Some(scale)
           /\ scriptLastScale' = Some(smoothedScale)
           /\ scriptWritten' = Some(smoothedScale)
           /\ scriptPrev' = scriptWritten
           /\ scriptRepeated' = (scriptTarget = Some(scale) /\ scriptWidth = Some(width))
    /\ UNCHANGED NotScriptVars

NextScript ==
    \/ Script_Reset
    \/ \E d \in ScriptShoulders : Script_Update(d)

(***************************************************************************)
(* The Pose Source's smoothing over a stream of detector results           *)
(***************************************************************************)

\* Bound of the stream: the number of results.
MaxStreamLen == 5

\* the smoothing factors the stream is run with: 0, the mapper's 0.2, the
\* configured 0.5, and 1
StreamFactors == {0, smoothingFactor, SMOOTHING_FACTOR, 1000}

\* the landmark coordinate of a result, in thousandths
StreamInputs == {0 - 250, 0, 297, 300, 1000}

StreamInit ==
    /\ streamFactor = NULL
    /\ streamLen = 0
    /\ streamInput = NULL
    /\ streamSmoothed = NULL
    /\ streamBefore = NULL
    /\ streamRepeated = FALSE

\* the configuration is read
Stream_Configure(factor) ==
    /\ streamFactor = NULL
    /\ streamFactor' = Some(factor)
    /\ UNCHANGED <<streamLen, streamInput, streamSmoothed, streamBefore, streamRepeated>>
    /\ UNCHANGED NotStreamVars

\* onResults(results) with landmarks: the smoothing
Stream_Results(input) ==
    /\ streamFactor # NULL
    /\ streamLen < MaxStreamLen
    /\ streamLen' = streamLen + 1
    /\ streamInput' = Some(input)
    /\ streamBefore' = streamSmoothed
    /\ streamSmoothed' = OnResultsWith(Some(input), streamSmoothed, Val(streamFactor))
    /\ streamRepeated' = (streamInput = Some(input))
    /\ UNCHANGED streamFactor
    /\ UNCHANGED NotStreamVars

NextStream ==
    \/ \E factor \in StreamFactors : Stream_Configure(factor)
    \/ \E input \in StreamInputs : Stream_Results(input)

(***************************************************************************)
(* Fabric materials                                                        *)
(***************************************************************************)

\* Bound of the materials model: the applyFabric() calls awaiting textures.
MaxApplyCalls == 2

\* fabrics with a color, applied without loading
ColorFabrics == {"blue"}

\* fabrics with texture URLs (PBR)
TextureFabrics == {"denim", "silk"}

ApplySlots == 1..MaxApplyCalls

\* the sequence calls without its c-th element
WithoutCall(calls, c) ==
    [i \in 1..(Len(calls) - 1) |-> IF i < c THEN calls[i] ELSE calls[i + 1]]

FabricInit ==
    /\ currentMaterial = NULL
    /\ currentFabric = NULL
    /\ meshMaterial = Some("original")
    /\ textures = NULL
    /\ applyCalls = <<>>
    /\ lastFailure = NULL
    /\ swapLog = <<>>
    /\ madeLast = NULL

\* what getCurrentFabric(), getCurrentMaterial() and mesh.material give
FabricState == <<currentFabric, currentMaterial, meshMaterial>>

\* modelLoader.setVisible(visible): the garment after the call
SetVisible(visible) == WithVisible(jacket, visible)

\* the pending calls once another call has changed the state
Disturbed(calls) ==
    [c \in 1..Len(calls) |-> [calls[c] EXCEPT !.before = NULL]]

\* the garment has been shown or hidden by the materials manager: the history
\* of the mapper's last update() no longer describes it
GarmentTouched ==
    /\ updateOutcome' = "none"
    /\ updateLowVisibility' = FALSE
    /\ updateCount' = NULL
    /\ jacketBefore' = NULL

\* an applyFabric() that disposes the old material before it attaches the new one
SwapEventsDisposeFirst(oldMaterial, material, sameObject) ==
    IF oldMaterial # NULL /\ ~sameObject
    THEN <<[op |-> "dispose", material |-> oldMaterial],
           [op |-> "attach", material |-> material]>>
    ELSE <<[op |-> "attach", material |-> material]>>

\* applyFabric() from mesh.material = material on: the new material is attached,
\* then the old one disposed if there is one and it is another object
SwapEvents(oldMaterial, material, sameObject) ==
    IF oldMaterial # NULL /\ ~sameObject
    THEN <<[op |-> "attach", material |-> material],
           [op |-> "dispose", material |-> oldMaterial]>>
    ELSE <<[op |-> "attach", material |-> material]>>

\* applyFabric(fabricData) without a jacket mesh: the throw is caught, the error
\* shown and false returned
ApplyFabricNoMesh ==
    /\ jacket = NULL
    /\ lastFailure' = Some([before |-> Some(FabricState)])
    /\ swapLog' = <<>>
    /\ UNCHANGED <<currentMaterial, currentFabric, meshMaterial, textures, applyCalls>>
    /\ UNCHANGED <<jacket, updateOutcome, updateLowVisibility, updateCount, jacketBefore>>
    /\ madeLast' = NULL

\* applyFabric(fabricData) without a jacket mesh, as a call of the materials manager alone
MM_ApplyNoMesh ==
    /\ ApplyFabricNoMesh
    /\ UNCHANGED NotFabricVars

\* applyFabric(fabricData) of a color fabric
ApplyFabricColor(fabric) ==
    /\ jacket # NULL
    /\ meshMaterial' = Some(fabric)
    /\ currentMaterial' = Some(fabric)
    /\ currentFabric' = Some(fabric)
    /\ jacket' = SetVisible(TRUE)
    /\ GarmentTouched
    /\ applyCalls' = Disturbed(applyCalls)
    /\ lastFailure' = NULL
    /\ swapLog' = SwapEvents(meshMaterial, Some(fabric), FALSE)
    /\ UNCHANGED textures
    /\ madeLast' = Some(fabric)

\* applyFabric(fabricData) of a color fabric, as a call of the materials manager alone
MM_ApplyColor(fabric) ==
    /\ ApplyFabricColor(fabric)
    /\ UNCHANGED NotFabricVars

\* an applyFabric() that records the fabric before its textures are loaded
FabricWhileLoadingEager(fabric) == Some(fabric)

\* applyFabric() of a texture fabric up to its await: currentFabric is not
\* assigned yet
FabricWhileLoading(fabric) == currentFabric

\* applyFabric(fabricData) of a texture fabric, up to the await of its textures
ApplyFabricBegin(fabric) ==
    /\ jacket # NULL
    /\ Len(applyCalls) < MaxApplyCalls
    /\ applyCalls' = Append(applyCalls, [fabric |-> fabric, before |-> Some(FabricState)])
    /\ currentFabric' = FabricWhileLoading(fabric)
    /\ UNCHANGED <<currentMaterial, meshMaterial, textures, lastFailure, swapLog>>
    /\ UNCHANGED <<jacket, updateOutcome, updateLowVisibility, updateCount, jacketBefore>>
    /\ madeLast' = Some(fabric)

\* applyFabric(fabricData) of a texture fabric up to its await, as a call of the materials manager alone
MM_ApplyBegin(fabric) ==
    /\ ApplyFabricBegin(fabric)
    /\ UNCHANGED NotFabricVars

\* all textures of call c load: the rest of applyFabric()
ApplyFabricLoaded(c) ==
    /\ c <= Len(applyCalls)
    /\ LET fabric == applyCalls[c].fabric
       IN  /\ meshMaterial' = Some(fabric)
           /\ currentMaterial' = Some(fabric)
           /\ currentFabric' = Some(fabric)
           /\ textures' = Some(fabric)
    /\ jacket' = SetVisible(TRUE)
    /\ GarmentTouched
    /\ applyCalls' = Disturbed(WithoutCall(applyCalls, c))
    /\ lastFailure' = NULL
    /\ swapLog' = SwapEvents(meshMaterial, Some(applyCalls[c].fabric), FALSE)
    /\ UNCHANGED madeLast

\* all textures of call c load, the call being one of the materials manager alone
MM_ApplyLoaded(c) ==
    /\ ApplyFabricLoaded(c)
    /\ UNCHANGED NotFabricVars

\* a texture of call c fails to load: Promise.all rejects, the error is shown and
\* false returned
ApplyFabricFailed(c) ==
    /\ c <= Len(applyCalls)
    /\ applyCalls' = WithoutCall(applyCalls, c)
    /\ lastFailure' = Some([before |-> applyCalls[c].before])
    /\ swapLog' = <<>>
    /\ UNCHANGED <<currentMaterial, currentFabric, meshMaterial, textures>>
    /\ UNCHANGED <<jacket, updateOutcome, updateLowVisibility, updateCount, jacketBefore>>
    /\ madeLast' = NULL

\* a texture of call c fails to load, the call being one of the materials manager alone
MM_ApplyFailed(c) ==
    /\ ApplyFabricFailed(c)
    /\ UNCHANGED NotFabricVars

\* MaterialsManager.removeFabric()
MM_RemoveFabric ==
    /\ currentMaterial' = NULL
    /\ currentFabric' = NULL
    /\ textures' = NULL
    /\ jacket' = SetVisible(FALSE)
    /\ GarmentTouched
    /\ applyCalls' = Disturbed(applyCalls)
    /\ lastFailure' = NULL
    /\ madeLast' = NULL
    /\ UNCHANGED <<meshMaterial, swapLog>>
    /\ UNCHANGED NotFabricVars

\* the poses the mapper is given while fabrics are applied: no pose, and one
\* geometry with both shoulders above the visibility threshold
FabricPoses ==
    {NULL} \cup
    { p \in PoseInputs \ {NULL} :
        /\ Val(p).count = MinLandmarks
        /\ Val(p).leftShoulder.x = 600
        /\ Val(p).leftShoulder.visibility = Val(p).rightShoulder.visibility
        /\ Val(p).leftShoulder.visibility = Some(301) }

NextFabric ==
    \/ SM_Tick
    \/ SM_LoadJacket
    \/ SM_Init
    \/ \E poseData \in FabricPoses : SM_Update(poseData)
    \/ MM_ApplyNoMesh
    \/ \E fabric \in ColorFabrics : MM_ApplyColor(fabric)
    \/ \E fabric \in TextureFabrics : MM_ApplyBegin(fabric)
    \/ \E c \in ApplySlots : MM_ApplyLoaded(c)
    \/ \E c \in ApplySlots : MM_ApplyFailed(c)
    \/ MM_RemoveFabric

(***************************************************************************)
(* Fabric selection                                                        *)
(***************************************************************************)

\* the fabrics of the selector's list
SelectableFabrics == ColorFabrics \cup TextureFabrics

SelInit ==
    /\ selectedFabric = NULL
    /\ selIsLoading = FALSE
    /\ selOutcome = "none"
    /\ selIgnored = FALSE

\* a selectFabric() that records the fabric whatever applyFabric() returns
SelectedAfterAlways(fabric, success) == Some(fabric)

\* selectFabric() after its await: selectedFabric is assigned if applyFabric()
\* returned true
SelectedAfter(fabric, success) == IF success THEN Some(fabric) ELSE selectedFabric

\* the materials manager and the garment are left as they are
MaterialsUntouched ==
    /\ UNCHANGED fabricVars
    /\ UNCHANGED <<jacket, updateOutcome, updateLowVisibility, updateCount, jacketBefore>>

\* FabricSelector.selectFabric(fabric), up to its return or to the await of the
\* textures in applyFabric()
Sel_SelectFabric(fabric) ==
    /\ IF selIsLoading
       THEN /\ selIgnored' = TRUE
            /\ UNCHANGED <<selectedFabric, selIsLoading, selOutcome>>
            /\ MaterialsUntouched
       ELSE /\ UNCHANGED selIgnored
            /\ \E uiThrows \in BOOLEAN :
                  IF uiThrows
                  THEN /\ selOutcome' = "error"
                       /\ UNCHANGED <<selectedFabric, selIsLoading>>
                       /\ MaterialsUntouched
                  ELSE IF jacket = NULL
                  THEN /\ ApplyFabricNoMesh
                       /\ selectedFabric' = SelectedAfter(fabric, FALSE)
                       /\ selOutcome' = "failed"
                       /\ UNCHANGED selIsLoading
                  ELSE IF fabric \in ColorFabrics
                  THEN /\ ApplyFabricColor(fabric)
                       /\ selectedFabric' = SelectedAfter(fabric, TRUE)
                       /\ selOutcome' = "applied"
                       /\ UNCHANGED selIsLoading
                  ELSE /\ ApplyFabricBegin(fabric)
                       /\ selIsLoading' = TRUE
                       /\ selOutcome' = "loading"
                       /\ UNCHANGED selectedFabric
    /\ UNCHANGED NotSelectorVars

\* the textures of the selection load: applyFabric() returns true and
\* selectFabric() runs to its end
Sel_TexturesLoaded ==
    /\ selIsLoading
    /\ applyCalls # <<>>
    /\ ApplyFabricLoaded(1)
    /\ selectedFabric' = SelectedAfter(applyCalls[1].fabric, TRUE)
    /\ selIsLoading' = FALSE
    /\ selOutcome' = "applied"
    /\ UNCHANGED selIgnored
    /\ UNCHANGED NotSelectorVars

\* a texture of the selection fails to load: applyFabric() returns false and
\* selectFabric() runs to its end
Sel_TexturesFailed ==
    /\ selIsLoading
    /\ applyCalls # <<>>
    /\ ApplyFabricFailed(1)
    /\ selectedFabric' = SelectedAfter(applyCalls[1].fabric, FALSE)
    /\ selIsLoading' = FALSE
    /\ selOutcome' = "failed"
    /\ UNCHANGED selIgnored
    /\ UNCHANGED NotSelectorVars

NextSelector ==
    \/ SM_LoadJacket
    \/ \E fabric \in SelectableFabrics : Sel_SelectFabric(fabric)
    \/ Sel_TexturesLoaded
    \/ Sel_TexturesFailed

(***************************************************************************)
(* Application bootstrap                                                   *)
(***************************************************************************)

\* the steps of LucyApp.init() in the order of the code
InitSteps ==
    <<"browser", "camera", "pose", "scene", "jacket", "renderer", "mapper", "fabrics",
      "capture", "ai">>

StartPc == Len(InitSteps) + 1

SettledPc == Len(InitSteps) + 2

AppInit ==
    /\ appPc = 0
    /\ initResult = "none"
    /\ appInitialized = FALSE
    /\ appRunning = FALSE
    /\ stepsRun = {}
    /\ failures = {}
    /\ channelLost = FALSE
    /\ poseLoopStarted = FALSE
    /\ rendererStarted = FALSE
    /\ pageHidden = FALSE
    /\ stopCalled = FALSE
    /\ errorShown = FALSE

\* an init() in which no failure of a step leaves the step
StepPropagatesNothing(step) == FALSE

\* an init() in which a failure of the enhancement connection leaves
\* AIPipeline.init()
StepPropagatesChannel(step) == step # "fabrics"

\* a failure inside the step leaves it as a thrown error or a rejected promise:
\* FabricSelector.init() and AIPipeline.init() catch theirs
StepPropagates(step) == step \notin {"fabrics", "ai"}

\* LucyApp.init() is called by the page
App_Init ==
    /\ appPc = 0
    /\ appPc' = 1
    /\ initResult' = "pending"
    /\ UNCHANGED <<appInitialized, appRunning, stepsRun, failures, channelLost,
                   poseLoopStarted, rendererStarted, pageHidden, stopCalled, errorShown>>
    /\ UNCHANGED NotAppVars

\* one step of LucyApp.init(); a failure that leaves the step goes to the catch
\* block: the error is shown and thrown again
App_InitStep ==
    /\ appPc \in 1..Len(InitSteps)
    /\ LET step == InitSteps[appPc]
       IN  \E ok \in BOOLEAN :
              /\ stepsRun' = stepsRun \cup {step}
              /\ failures' = IF ok THEN failures ELSE failures \cup {step}
              /\ IF ~ok /\ StepPropagates(step)
                 THEN /\ appPc' = SettledPc
                      /\ initResult' = "rejected"
                      /\ errorShown' = TRUE
                 ELSE /\ appPc' = appPc + 1
                      /\ UNCHANGED <<initResult, errorShown>>
    /\ UNCHANGED <<appInitialized, appRunning, channelLost, poseLoopStarted, rendererStarted,
                   pageHidden, stopCalled>>
    /\ UNCHANGED NotAppVars

\* LucyApp.start() with poseTracker.start() succeeding (ok) or throwing:
\* <<poseLoopStarted, rendererStarted, isRunning, threw>> after the call
StartApp(ok) ==
    IF ~appInitialized THEN <<poseLoopStarted, rendererStarted, appRunning, TRUE>>
    ELSE IF ~ok THEN <<poseLoopStarted, rendererStarted, appRunning, TRUE>>
    ELSE <<TRUE, TRUE, TRUE, FALSE>>

\* the end of LucyApp.init(): isInitialized = true and await this.start()
App_InitStart ==
    /\ appPc = StartPc
    /\ appPc' = SettledPc
    /\ appInitialized' = TRUE
    /\ \E ok \in BOOLEAN :
          LET after == IF ok THEN <<TRUE, TRUE, TRUE, FALSE>>
                       ELSE <<poseLoopStarted, rendererStarted, appRunning, TRUE>>
          IN  /\ poseLoopStarted' = after[1]
              /\ rendererStarted' = after[2]
              /\ appRunning' = after[3]
              /\ failures' = IF after[4] THEN failures \cup {"start"} ELSE failures
              /\ initResult' = IF after[4] THEN "rejected" ELSE "resolved"
              /\ errorShown' = (errorShown \/ after[4])
    /\ UNCHANGED <<stepsRun, channelLost, pageHidden, stopCalled>>
    /\ UNCHANGED NotAppVars

\* LucyApp.start() called again (restart(), or by the page)
App_Start ==
    /\ appPc = SettledPc
    /\ \E ok \in BOOLEAN :
          /\ poseLoopStarted' = StartApp(ok)[1]
          /\ rendererStarted' = StartApp(ok)[2]
          /\ appRunning' = StartApp(ok)[3]
    /\ UNCHANGED <<appPc, initResult, appInitialized, stepsRun, failures, channelLost,
                   pageHidden, stopCalled, errorShown>>
    /\ UNCHANGED NotAppVars

\* LucyApp.stop(); poseTracker.stop() cancels no frame request
App_Stop ==
    /\ appRunning' = FALSE
    /\ rendererStarted' = FALSE
    /\ stopCalled' = TRUE
    /\ UNCHANGED <<appPc, initResult, appInitialized, stepsRun, failures, channelLost,
                   poseLoopStarted, pageHidden, errorShown>>
    /\ UNCHANGED NotAppVars

\* visibilitychange with document.hidden
App_PageHidden ==
    /\ ~pageHidden
    /\ pageHidden' = TRUE
    /\ rendererStarted' = IF appRunning THEN FALSE ELSE rendererStarted
    /\ UNCHANGED <<appPc, initResult, appInitialized, appRunning, stepsRun, failures,
                   channelLost, poseLoopStarted, stopCalled, errorShown>>
    /\ UNCHANGED NotAppVars

\* visibilitychange with the page visible again
App_PageVisible ==
    /\ pageHidden
    /\ pageHidden' = FALSE
    /\ rendererStarted' = IF appRunning THEN TRUE ELSE rendererStarted
    /\ UNCHANGED <<appPc, initResult, appInitialized, appRunning, stepsRun, failures,
                   channelLost, poseLoopStarted, stopCalled, errorShown>>
    /\ UNCHANGED NotAppVars

\* the enhancement connection is lost, or a reconnection fails, after
\* AIPipeline.init(): ws.onclose and handleDisconnect(), which touch no field of
\* the application and catch the rejection of connect()
App_ChannelLost ==
    /\ "ai" \in stepsRun
    /\ channelLost' = TRUE
    /\ UNCHANGED <<appPc, initResult, appInitialized, appRunning, stepsRun, failures,
                   poseLoopStarted, rendererStarted, pageHidden, stopCalled, errorShown>>
    /\ UNCHANGED NotAppVars

NextApp ==
    \/ App_Init
    \/ App_InitStep
    \/ App_InitStart
    \/ App_Start
    \/ App_Stop
    \/ App_PageHidden
    \/ App_PageVisible
    \/ App_ChannelLost

(***************************************************************************)
(* The render loop under the application and the page's visibility         *)
(***************************************************************************)

\* the renderer's fields that neither start() nor stop() writes
RendererUntouched ==
    UNCHANGED <<isRunning, animationId, rafPending, lastRenderTime, frameCount,
                lastFpsUpdate, fpsHistory, fps, renderScale, lastAccepted, acceptedGap,
                lastFrameThrew, lastFrameScale, scaleRose, unpausedStall>>

LoopInit ==
    /\ loopAppRunning = FALSE
    /\ docHidden = FALSE
    /\ shownAgain = FALSE

\* LucyApp.start() of an initialized application, from compositeRenderer.start()
\* on: a throw of a later statement leaves isRunning as it was
Loop_AppStart ==
    /\ StartRenderer
    /\ \E completed \in BOOLEAN :
          loopAppRunning' = IF completed THEN TRUE ELSE loopAppRunning
    /\ UNCHANGED <<docHidden, shownAgain, rClock, rTicks>>
    /\ UNCHANGED NotLoopVars

\* LucyApp.stop()
Loop_AppStop ==
    /\ loopAppRunning' = FALSE
    /\ StopRenderer
    /\ UNCHANGED <<docHidden, shownAgain, rClock, rTicks>>
    /\ UNCHANGED NotLoopVars

\* visibilitychange with document.hidden
Loop_PageHidden ==
    /\ ~docHidden
    /\ docHidden' = TRUE
    /\ IF loopAppRunning THEN StopRenderer ELSE RendererUntouched
    /\ UNCHANGED <<loopAppRunning, shownAgain, rClock, rTicks>>
    /\ UNCHANGED NotLoopVars

\* visibilitychange with the page visible again
Loop_PageVisible ==
    /\ docHidden
    /\ docHidden' = FALSE
    /\ shownAgain' = TRUE
    /\ IF loopAppRunning THEN StartRenderer ELSE RendererUntouched
    /\ UNCHANGED <<loopAppRunning, rClock, rTicks>>
    /\ UNCHANGED NotLoopVars

NextLoop ==
    \/ R_Tick
    \/ Loop_AppStart
    \/ Loop_AppStop
    \/ Loop_PageHidden
    \/ Loop_PageVisible
    \/ \E r \in rafPending : R_Vsync(r)

(***************************************************************************)
(* Specifications                                                          *)
(***************************************************************************)

Init == PoseInit /\ AIInit /\ RInit /\ SMInit /\ BlendInit /\ FabricInit /\ AppInit /\ ScriptInit /\ StreamInit
        /\ LoopInit /\ SelInit

NextPose ==
    \/ PT_Tick
    \/ PT_Init
    \/ PT_Start
    \/ \E l \in LoopIds : PT_SendFrame(l)
    \/ \E l \in LoopIds : PT_Results(l)
    \/ \E l \in LoopIds : PT_SendError(l)
    \/ PT_Stop
    \/ PT_SetProcessInterval

SpecPose == Init /\ [][NextPose]_vars

SpecAI == Init /\ [][NextAI]_vars

SpecRender == Init /\ [][NextRender]_vars

SpecMapper == Init /\ [][NextMapper]_vars

SpecBlend == Init /\ [][NextBlend]_vars

SpecFabric == Init /\ [][NextFabric]_vars

SpecApp == Init /\ [][NextApp]_vars

SpecScript == Init /\ [][NextScript]_vars

SpecStream == Init /\ [][NextStream]_vars

SpecLoop == Init /\ [][NextLoop]_vars

SpecSelector == Init /\ [][NextSelector]_vars

(***************************************************************************)
(* Claims                                                                  *)
(***************************************************************************)

\* C1: the detector (pose.send) is never invoked while a previous invocation
\* has not yet completed: at most one invocation is in flight.
C1_SingleFlight == Cardinality(InFlight) <= 1

\* C2: after PoseTracker.stop() no detector invocation is started until
\* start() is called again.
C2_NoSendAfterStop == ~sentWhileStopped

\* C3: never more than MAX_RECONNECT_ATTEMPTS connections are made by the
\* reconnection logic without a successful open in between.
C3_RetryBudget == attemptsSinceOpen <= MAX_RECONNECT_ATTEMPTS

\* the budget is used up, the last socket has closed and nothing is pending
C3_Failed ==
    /\ attemptsSinceOpen = MAX_RECONNECT_ATTEMPTS
    /\ reconnectAttempts = MAX_RECONNECT_ATTEMPTS
    /\ LiveSockets = {}
    /\ reconnectWaits = 0

\* C4: after close() on a Connected channel no new connection is made and the
\* channel stays not Connected.
C4_CloseSuppressesReconnect ==
    closedAt # NULL => (NumSockets = Val(closedAt) /\ ~isConnected)

\* C5: at most one periodic keyframe timer is active.
C5_OneKeyframeTimer == ActiveTimers <= 1

\* C6: a keyframe send attempt whose connection is lost before its transmit
\* step is dropped: nothing is transmitted for it then or later.
C6_NoStaleKeyframe == ~staleSent

\* C7 as claimed: two consecutive accepted frames are never less than
\* 1000/targetFps ms apart.
C7_FrameCapExact == acceptedGap # NULL => Val(acceptedGap) >= Ms(1000) \div TARGET_FPS

\* C7 as amended: two consecutive accepted frames are never less than
\* 1000/targetFps - 1 ms apart, and a tick arriving sooner only reschedules.
C7_FrameCap == acceptedGap # NULL => Val(acceptedGap) >= (Ms(1000) \div TARGET_FPS) - Ms(1)

\* two accepted frames less than 1000/targetFps ms apart
C7_Witness == acceptedGap # NULL /\ Val(acceptedGap) < Ms(1000) \div TARGET_FPS

\* C8: after an accepted frame whose scene render threw, the running loop still
\* has its next frame request pending.
C8_ThrowKeepsLoop ==
    (isRunning /\ lastFrameThrew) => (animationId # 0 /\ animationId \in rafPending)

\* the loop runs on after a frame that threw
C8_Witness == isRunning /\ lastFrameThrew /\ rTicks > 0

\* C9: while the render loop is stopped no frame request is pending.
C9_StopCancels == ~isRunning => (rafPending = {} /\ animationId = 0)

\* the loop was started, rendered a frame and is stopped
C9_Witness == ~isRunning /\ lastAccepted # NULL

\* C10: an update() with a pose whose left or right shoulder visibility is at
\* most 0.3 leaves the garment's position, rotation, scale and visibility as
\* they were before the call.
C10_LowVisibilityFreezes == updateLowVisibility => jacket = jacketBefore

\* a tracked, visible garment has received an update() that passed the throttle
\* with a low-visibility shoulder
C10_Witness ==
    /\ updateLowVisibility
    /\ updateOutcome = "shouldersNotVisible"
    /\ jacket # NULL
    /\ Val(jacket).visible
    /\ Val(jacket).position # <<0, 0, 0>>

\* C11: an update() with a pose of fewer or of more than 33 landmarks leaves the
\* garment as it was before the call.
C11_ExactLandmarkCount ==
    (updateCount # NULL /\ Val(updateCount) # 33) => jacket = jacketBefore

\* C12: the uniform scale of the garment lies within the clamp range [1.0, 4.5]
\* after any sequence of update(), reset() and updateCalibration() calls.
C12_ScaleClamped ==
    jacket # NULL => (Val(jacket).scale >= 1000 /\ Val(jacket).scale <= 4500)

\* after reset() and updateCalibration() a wide pose was applied at the upper
\* limit 4.5, and then a pose whose shoulders coincide (width 0) has been applied:
\* 0.2 * 1.0 + 0.8 * 4.5 = 3.8
C12_Witness ==
    /\ updateOutcome = "applied"
    /\ lastPose # NULL
    /\ Val(lastPose).leftShoulder.x = Val(lastPose).rightShoulder.x
    /\ Val(lastPose).leftShoulder.y = Val(lastPose).rightShoulder.y
    /\ Val(jacket).scale = 3800

\* the shoulder landmark Y increased between the last two accepted updates, which
\* ran under the same vertical offset
ShoulderYIncreased ==
    /\ prevApplied # NULL
    /\ lastApplied # NULL
    /\ Val(lastApplied).shoulderY > Val(prevApplied).shoulderY
    /\ Val(lastApplied).verticalOffset = Val(prevApplied).verticalOffset

C14_NoPoseAfterLoss == landmarks = NULL => ~IsPoseDetected

\* C15: the transition in progress is the one begun at the arrival of the latest
\* enhancement frame: every arrival restarts the blend, also in mid-transition.
C15_ArrivalRestartsBlend == receivedAt # NULL => blendStart = receivedAt

\* C16: the channel retains the image of the most recently received result
\* message, whatever timestamps the messages carry, and nothing before the
\* first one.
C16_LastReceivedWins ==
    latestAIFrame = (IF lastReceived = NULL THEN NULL ELSE Some(Val(lastReceived).image))

\* a result message with an older timestamp and another image came after one
\* with a newer timestamp
C16_Witness ==
    /\ prevReceived # NULL
    /\ lastReceived # NULL
    /\ Val(lastReceived).timestamp < Val(prevReceived).timestamp
    /\ Val(lastReceived).image # Val(prevReceived).image

\* C17: after an applyFabric() call that failed on a texture, no other call
\* having changed the materials since it began, getCurrentFabric(),
\* getCurrentMaterial() and the mesh's material are what they were before the call.
C17_AtomicSwap ==
    (lastFailure # NULL /\ Val(lastFailure).before # NULL)
        => FabricState = Val(Val(lastFailure).before)

\* a texture fabric failed to load over a fabric applied earlier
C17_Witness ==
    /\ lastFailure # NULL
    /\ Val(lastFailure).before # NULL
    /\ currentFabric # NULL
    /\ jacket # NULL

\* C18: a connection attempt whose 5 s timeout has fired is no longer
\* connecting: its socket was given up (closed) and the failure handled.
C18_TimeoutLeavesConnecting ==
    \A s \in SocketIds : connectPromise[s] = "settled" => wsState[s] # "connecting"

\* C19: the garment is not visible before a valid tracked pose has been applied
\* by SkeletonMapper.update().
C19_HiddenUntilTracked ==
    (jacket # NULL /\ Val(jacket).visible) => lastApplied # NULL

\* C20: the render scale of an accepted frame is never higher than that of the
\* accepted frame before it, and the scale is never below 0.5.
C20_OneWayWithFloor ==
    /\ ~scaleRose
    /\ renderScale.v >= 5000

\* the floor alone: the scale is never below 0.5
C20_Floor == renderScale.v >= 5000

\* the steps of init() up to and including step number n
StepsUpTo(n) == {InitSteps[i] : i \in 1..n}

\* the number of the first step that failed
FirstFailed == CHOOSE n \in 1..Len(InitSteps) :
                  /\ InitSteps[n] \in failures
                  /\ \A m \in 1..(n - 1) : InitSteps[m] \notin failures

\* C21: when the camera, the pose detector, the scene or the garment load fails
\* in init(), init() rejects, no later step is run, isInitialized stays false
\* and neither the pose loop nor the render loop is started.
C21_FatalInitFailure ==
    (failures \cap {"camera", "pose", "scene", "jacket"} # {})
        => /\ initResult = "rejected"
           /\ stepsRun = StepsUpTo(FirstFailed)
           /\ ~appInitialized
           /\ ~appRunning
           /\ ~poseLoopStarted
           /\ ~rendererStarted

\* the garment load failed in init(), the error was shown, and stop() was called
\* afterwards
C21_Witness ==
    /\ "jacket" \in failures
    /\ initResult = "rejected"
    /\ errorShown
    /\ stopCalled
    /\ ~pageHidden

\* C22: a failure of the enhancement connection, in init() or later, does not
\* reject init(): when nothing else fails, init() resolves, the application is
\* initialized, and until stop() it is running with the pose loop started and,
\* the page being visible, the renderer started.
C22_ConnectivityNotFatal ==
    (/\ ("ai" \in failures \/ channelLost)
     /\ failures \subseteq {"ai", "fabrics"}
     /\ appPc = SettledPc)
        => /\ initResult = "resolved"
           /\ appInitialized
           /\ ~stopCalled => (appRunning /\ poseLoopStarted)
           /\ (~stopCalled /\ ~pageHidden) => rendererStarted

\* the connection failed in init() and was lost again later, and the application runs
C22_Witness ==
    /\ "ai" \in failures
    /\ channelLost
    /\ appPc = SettledPc
    /\ appRunning
    /\ rendererStarted

\* C23: two consecutive detector invocations are started at least
\* processInterval apart, however many sendFrame loops start() has begun.
C23_Throttle == sendGap # NULL => Val(sendGap).gap >= Val(sendGap).interval

\* two loops run and the detector was invoked again exactly one interval after
\* the invocation before
C23_Witness ==
    /\ sendGap # NULL
    /\ Val(sendGap).gap = Val(sendGap).interval
    /\ \A l \in LoopIds : sendFrameLoops[l] # "none"

\* C24: after stop(), and no detector invocation having been started since, no
\* landmarks are stored: the result of an invocation that was in flight at
\* stop() is discarded.
C24_InFlightResultDiscarded == (ptStopped /\ ~sentWhileStopped) => landmarks = NULL

\* C25: over a pose sequence with non-decreasing shoulder width the scale
\* written to the garment never decreases from one update to the next and never
\* passes the clamped scale of the pose; when a pose is repeated the written
\* scale moves closer to that scale (to within the rounding of a thousandth).
C25_NarrowToWide ==
    (scriptPrev # NULL)
        => /\ Val(scriptWritten) >= Val(scriptPrev)
           /\ Val(scriptWritten) <= Val(scriptTarget)
           /\ (scriptRepeated /\ Val(scriptTarget) - Val(scriptPrev) >= 3)
                 => Val(scriptWritten) > Val(scriptPrev)

\* the script went from collapsed shoulders to shoulders wider than the clamp
\* admits, and the final pose was repeated, the scale still rising towards 4.5
C25_Witness ==
    /\ scriptLen = MaxScriptLen
    /\ scriptRepeated
    /\ scriptTarget = Some(4500)
    /\ Val(scriptWritten) > Val(scriptPrev)
    /\ Val(scriptPrev) > 2000

\* the distance of a smoothed value from the input
StreamDistance(smoothed) ==
    IF Val(smoothed) >= Val(streamInput)
    THEN Val(smoothed) - Val(streamInput)
    ELSE Val(streamInput) - Val(smoothed)

\* C26: with a factor above 0, a result equal to the smoothed value leaves the
\* smoothed value equal to it, and a repeated result moves the smoothed value
\* towards the input (closer whenever the step is more than half a thousandth)
\* and never past it.
C26_EmaFixedPoint ==
    (/\ streamFactor # NULL
     /\ Val(streamFactor) > 0
     /\ streamBefore # NULL)
        => /\ streamBefore = streamInput => streamSmoothed = streamInput
           /\ streamRepeated =>
                 /\ StreamDistance(streamSmoothed) <= StreamDistance(streamBefore)
                 /\ (Val(streamBefore) <= Val(streamInput))
                       => (Val(streamSmoothed) <= Val(streamInput))
                 /\ (Val(streamBefore) >= Val(streamInput))
                       => (Val(streamSmoothed) >= Val(streamInput))
                 /\ (Val(streamFactor) * StreamDistance(streamBefore) > 500)
                       => StreamDistance(streamSmoothed) < StreamDistance(streamBefore)

\* a repeated result has drawn the smoothed value, with the mapper's factor 0.2,
\* closer to the input without reaching it
C26_Witness ==
    /\ streamFactor = Some(smoothingFactor)
    /\ streamRepeated
    /\ streamBefore # NULL
    /\ StreamDistance(streamSmoothed) < StreamDistance(streamBefore)
    /\ StreamDistance(streamSmoothed) > 0
    /\ streamLen = MaxStreamLen

\* C27: with smoothing factor 0 the emitted landmarks are the detector's, and
\* with smoothing factor 1 they stay at the previous smoothed value.
C27_FactorSemantics ==
    (streamFactor # NULL /\ streamBefore # NULL)
        => /\ Val(streamFactor) = 0 => streamSmoothed = streamInput
           /\ Val(streamFactor) = 1000 => streamSmoothed = streamBefore

\* the half of C27 about factor 0
C27_FactorZero ==
    (streamFactor = Some(0) /\ streamInput # NULL) => streamSmoothed = streamInput

\* C28: in the applyFabric() call that ended last, a material was disposed only
\* after the new material had been attached to the mesh, and nothing was
\* disposed if the call failed.
C28_DisposeAfterAttach ==
    /\ \A i \in DOMAIN swapLog :
          swapLog[i].op = "dispose"
              => \E j \in 1..(i - 1) : swapLog[j].op = "attach"
    /\ lastFailure # NULL => (\A i \in DOMAIN swapLog : swapLog[i].op # "dispose")

\* a texture fabric, loaded while another call was pending, replaced a fabric
\* applied earlier and disposed its material
C28_Witness ==
    /\ Len(swapLog) = 2
    /\ swapLog[2].op = "dispose"
    /\ swapLog[2].material \in {Some(f) : f \in ColorFabrics \cup TextureFabrics}
    /\ textures # NULL
    /\ Len(applyCalls) > 0

\* C29: after any sequence of start(), stop() and page hide and show events at
\* most one next-frame request of the render loop is pending, so at most one
\* render pass of the loop runs per vsync tick; start() while the loop is
\* running creates no second loop.
C29_OneFrameRequest == Cardinality(rafPending) <= 1

\* the application was started, the page was hidden and shown again, the loop
\* has rendered and runs with its one request pending
C29_Witness ==
    /\ shownAgain
    /\ ~docHidden
    /\ loopAppRunning
    /\ isRunning
    /\ lastAccepted # NULL
    /\ Cardinality(rafPending) = 1

\* the step handles an error message or an unparsable message
C30_FailureHandled == lastHandled' # lastHandled /\ IsFailure(lastHandled')

\* C30: an error message and an unparsable message are not fatal: handling one
\* leaves the retained enhancement frame, the blend state, the connection state
\* and the keyframe timer unchanged, and a result message that comes after it
\* is still stored and blended in.
C30_FailureMessagesHarmless ==
    [][/\ C30_FailureHandled =>
             UNCHANGED <<latestAIFrame, blendAlpha, isBlending, blendStart, animatePending,
                         wsState, ws, isConnected, connectPromise, reconnectAttempts,
                         keyframeInterval, orphanTimers>>
       /\ (IsFailure(lastHandled) /\ lastHandled' = "keyframe_result") =>
             /\ lastReceived' # NULL
             /\ latestAIFrame' = Some(Val(lastReceived').image)
             /\ isBlending']_vars

\* a result message was stored after an error or unparsable message, and then an
\* unparsable message was handled while the frame is retained, a transition is
\* under way, the channel is connected and the keyframe timer runs
C30_Witness ==
    /\ failureBefore
    /\ lastHandled = "malformed"
    /\ lastReceived # NULL
    /\ latestAIFrame = Some(Val(lastReceived).image)
    /\ isBlending
    /\ blendAlpha > 0
    /\ isConnected
    /\ keyframeInterval

\* C31: blend alpha stays within [0, MAX_BLEND_ALPHA] in every reachable state,
\* does not decrease from one animation frame to the next within one transition,
\* and equals MAX_BLEND_ALPHA when the transition has ended, which is at least the
\* transition duration after it began.
C31_AlphaBoundedMonotone ==
    /\ blendAlpha >= 0
    /\ blendAlpha <= MAX_BLEND_ALPHA
    /\ Len(frameAlphas) = 2 => frameAlphas[2] >= frameAlphas[1]
    /\ (~isBlending /\ blendStart # NULL) =>
          /\ blendAlpha = MAX_BLEND_ALPHA
          /\ blendClock - Val(blendStart) >= Ms(BLEND_TRANSITION_DURATION)

\* a transition has ended at MAX_BLEND_ALPHA after a frame part of the way
C31_Witness ==
    /\ ~isBlending
    /\ blendStart # NULL
    /\ Len(frameAlphas) = 2
    /\ frameAlphas[1] > 0
    /\ frameAlphas[1] < MAX_BLEND_ALPHA
    /\ frameAlphas[2] = MAX_BLEND_ALPHA
    /\ blendAlpha = MAX_BLEND_ALPHA

\* the outcomes of an update() that was rejected after its throttle test
C32_Rejected == {"noJacket", "invalidLandmarks", "shouldersNotVisible"}

\* C32: a rejected update() (garment missing, fewer than 33 landmarks, shoulders
\* not visible) does not consume the throttle window: an update() with a valid
\* pose that comes right after a rejected one, at least updateInterval after
\* the latest applied update, is applied and not throttled.
C32_RejectionKeepsWindow ==
    [][(/\ updateOutcome \in C32_Rejected
        /\ updateOutcome' \in {"throttled", "applied"}
        /\ jacket # NULL
        /\ updateCount' # NULL
        /\ Val(updateCount') >= MinLandmarks
        /\ ~updateLowVisibility'
        /\ appliedAt # NULL
        /\ smClock - Val(appliedAt) >= updateInterval) => updateOutcome' = "applied"]_vars

\* the step is the first accepted update() after init(), or the first accepted
\* update() after reset()
C33_FirstAccepted ==
    /\ updateOutcome' = "applied"
    /\ \/ appliedAt = NULL /\ appliedAt' # NULL
       \/ lastPosition = NULL /\ lastPosition' # NULL

\* C33: the first accepted update after init(), and the first accepted update
\* after reset(), write the computed position, rotation and scale to the garment
\* unsmoothed.
C33_FirstUpdateUnsmoothed ==
    [][C33_FirstAccepted =>
          LET pose == Val(lastPose')
          IN  /\ Val(jacket').position =
                    CalculatePosition(pose.leftShoulder, pose.rightShoulder)
              /\ Val(jacket').rotation =
                    CalculateRotation(pose.leftShoulder, pose.rightShoulder, pose.nose)
              /\ Val(jacket').scale =
                    CalculateScale(pose.leftShoulder, pose.rightShoulder)]_vars

\* C34: pausing the render loop never lowers the render quality by itself: as
\* long as the loop, while it ran, never went longer without a frame than a
\* rate of LOW_PERFORMANCE_THRESHOLD allows, the render scale is the configured
\* one after any sequence of stop() and start() pauses of any length.
C34_PauseKeepsScale == ~unpausedStall => renderScale = Scale(8000, FALSE)

\* the scale a is lower than the scale b
C35_Lower(a, b) == a.v < b.v \/ (a.v = b.v /\ b.above /\ ~a.above)

\* C35: the render scale is reduced at most once per FPS measurement: a frame
\* that records no FPS sample does not lower the scale when the frame before it
\* has lowered it already.
C35_OneDecrementPerSample ==
    [][(/\ lastFpsUpdate' = lastFpsUpdate
        /\ lastFrameScale # NULL
        /\ C35_Lower(renderScale, Val(lastFrameScale)))
          => ~C35_Lower(renderScale', renderScale)]_vars

\* C36: whenever no selectFabric() call is in progress, getSelectedFabric()
\* equals getCurrentFabric(), after any sequence of successful selections, failed
\* selections and selections attempted while another one is loading; and
\* isLoading is true only while a selectFabric() call awaits its textures.
C36_SelectionInSync ==
    /\ ~selIsLoading => selectedFabric = currentFabric
    /\ selIsLoading <=> (selOutcome = "loading" /\ applyCalls # <<>>)

\* a fabric is selected and applied, a selection was attempted while another was
\* loading, and the latest selection has failed
C36_Witness ==
    /\ ~selIsLoading
    /\ selIgnored
    /\ selOutcome = "failed"
    /\ selectedFabric # NULL
    /\ selectedFabric = currentFabric

\* C37: if two applyFabric() calls overlap, then after both have completed the
\* applied fabric and material are those of the call made last, in whatever order
\* their texture loads finish: once no call is loading, the fabric, the material
\* and the mesh's material are those of the texture fabric whose call was made
\* last.
C37_LastCallWins ==
    (applyCalls = <<>> /\ madeLast # NULL /\ Val(madeLast) \in TextureFabrics) =>
        /\ currentFabric = madeLast
        /\ currentMaterial = madeLast
        /\ meshMaterial = madeLast

\* the connect() call of socket s has timed out: its promise is rejected and the
\* socket is still connecting
C38_TimedOut(s) == wsState[s] = "connecting" /\ connectPromise[s] = "settled"

\* C38: once a connection attempt has timed out, a later open event of its
\* socket neither sets the channel to Connected nor resets the
\* reconnect-attempt counter.
C38_TimedOutAttemptIsDead ==
    [][\A s \in SocketIds :
          (C38_TimedOut(s) /\ wsState'[s] = "open") =>
              /\ isConnected' = isConnected
              /\ reconnectAttempts' = reconnectAttempts]_vars

====
